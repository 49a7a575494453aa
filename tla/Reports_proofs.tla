--------------------------- MODULE Reports_proofs ----------------------------
(***************************************************************************)
(* Proofs about what is published: of module Evidence, the honest delta    *)
(* and the morning page; of module Bakeoff, the stratum a run is held to,  *)
(* the counts of its report and the base it selects.  For any nights,      *)
(* measurements, gates, edits and accidents, and for any corpora, stratum  *)
(* documents, candidates, answers and kills.                               *)
(*                                                                         *)
(* The two keep an invariant each.  Chain follows a count from the sheet   *)
(* it is tallied from through the evidence, the sealed baseline and the    *)
(* gate's record to the honest sidecar; an edit of the baseline leaves its *)
(* digest behind.  Grounds says of a run of the bake-off what it holds of  *)
(* every candidate it is done with, that what it asked its contract poses, *)
(* and, while there was one run, that its journal is what it holds.        *)
(***************************************************************************)
EXTENDS Evidence, Bakeoff, FiniteSetTheorems, NaturalsInduction, WellFoundedInduction, SequenceTheorems, TLAPS

-----------------------------------------------------------------------------
(* Counts. *)

\* Counts over `tasks` that lose none of them.
Conserved(counts, tasks) ==
    /\ counts.denominator = Cardinality(tasks)
    /\ counts.unverified + counts.covered = counts.denominator
    /\ counts.solved + counts.failed = counts.covered
    /\ counts.solved \in Int

\* Tally conserves whatever it counts.
LEMMA TallyConserves ==
    ASSUME NEW side, IsFiniteSet(DOMAIN side)
    PROVE  Conserved(Tally(side), DOMAIN side) /\ DOMAIN Tally(side) = Fields
<1> DEFINE unverified == {t \in DOMAIN side : side[t].outcome \in Uncovered}
           solved     == {t \in DOMAIN side : side[t].outcome = "SOLVED"}
<1>1. /\ IsFiniteSet(unverified) /\ IsFiniteSet(solved)
  BY FS_Subset
<1>2. Cardinality(DOMAIN side) \in Nat /\ Cardinality(unverified) \in Nat /\ Cardinality(solved) \in Nat
  BY <1>1, FS_CardinalityType
<1>3. /\ Tally(side).denominator = Cardinality(DOMAIN side)
      /\ Tally(side).unverified = Cardinality(unverified)
      /\ Tally(side).solved = Cardinality(solved)
      /\ Tally(side).covered = Cardinality(DOMAIN side) - Cardinality(unverified)
      /\ Tally(side).failed = Cardinality(DOMAIN side) - Cardinality(unverified) - Cardinality(solved)
      /\ DOMAIN Tally(side) = Fields
  BY DEF Tally, HowMany, Fields
<1> HIDE DEF unverified, solved
<1> QED
  BY <1>2, <1>3 DEF Conserved

LEMMA SideConserves ==
    ASSUME NEW sheet, NEW d \in Documents, NEW budget
    PROVE  /\ Conserved(Tally(SideOf(sheet, Membership[d], budget)), Membership[d])
           /\ DOMAIN Tally(SideOf(sheet, Membership[d], budget)) = Fields
<1>1. /\ IsFiniteSet(Membership[d])
      /\ DOMAIN SideOf(sheet, Membership[d], budget) = Membership[d]
  BY EvidenceAssumption DEF EvidenceAssumption, SideOf
<1> QED
  BY <1>1, TallyConserves

\* A comparison that decided graded every task of both its sides.
LEMMA DecidedCovers ==
    ASSUME NEW new, NEW old, DOMAIN new = DOMAIN old, Decided(Decision(new, old))
    PROVE  Tally(new).unverified = 0 /\ Tally(old).unverified = 0
<1> DEFINE undecided == {t \in DOMAIN new : {new[t].outcome, old[t].outcome} \cap Uncovered # {}}
<1>1. undecided = {}
  BY DEF Decided, Decision
<1>2. /\ {t \in DOMAIN new : new[t].outcome \in Uncovered} = {}
      /\ {t \in DOMAIN old : old[t].outcome \in Uncovered} = {}
  BY <1>1
<1>3. Cardinality({}) = 0
  BY FS_EmptySet
<1> QED
  BY <1>2, <1>3 DEF Tally, HowMany

-----------------------------------------------------------------------------
(* The chain of documents. *)

\* A measurement's evidence counts the held-out tasks of its series, until a hand changes it.
Evidential(e) ==
    /\ e.series.heldout \in Documents
    /\ ~e.edited => Conserved(e.private, Membership[e.series.heldout])

\* A baseline's digest is of counts like these, whatever has been made of the counts since.
Measured(b) ==
    /\ {"measured", "series", "sides", "digest", "edited"} \subseteq DOMAIN b
    /\ "private" \in DOMAIN b.sides /\ b.series.heldout \in Documents
    /\ ~b.edited => Conserved(b.digest.sides.private, Membership[b.series.heldout])

\* A record counts the tasks of the document it was made under, and decides only what it graded,
\* until a hand changes it.
Compared(r) ==
    /\ r.heldout \in Documents /\ DOMAIN r.sides = {"candidate", "incumbent"}
    /\ ~r.edited => \A s \in DOMAIN r.sides :
          /\ Conserved(r.sides[s].private, Membership[r.heldout])
          /\ Decided(r.decision) => r.sides[s].private.unverified = 0

\* What is said of an honest number: of each side, of the gate's two, and of their bases.
OneExperiment(h) ==
    /\ \A s \in DOMAIN h.sides :
          LET counts == h.sides[s].private
          IN  /\ counts.weaker_wins <= counts.denominator
              /\ s # "baseline" => counts.solved + counts.failed + counts.unverified = counts.denominator
              /\ ~h.edited[s] =>
                    /\ Conserved(counts, Membership[h.series.heldout])
                    /\ h.headline # {} /\ s # "baseline" => counts.unverified = 0
    /\ h.named => \A s \in DOMAIN h.of : BaseOf[h.of[s]] = h.series.base

Shapes ==
    /\ DOMAIN evidence = Dirs /\ DOMAIN record = Gates /\ heldout \in Documents
    /\ DOMAIN baseline = {"page", "sidecar"} /\ DOMAIN honest = {"page", "sidecar"}
MeasuringSound == measuring # None => measuring.series.heldout \in Documents
EvidenceSound  == \A d \in Dirs : Readable(evidence[d]) => Evidential(evidence[d])
BaselineSound  ==
    Readable(baseline.sidecar) /\ baseline.sidecar.measured => Measured(baseline.sidecar)
RecordSound    == \A g \in Gates : Readable(record[g]) => Compared(record[g])
HonestSound    ==
    Readable(honest.sidecar) /\ honest.sidecar.measured => OneExperiment(honest.sidecar)

Chain == Shapes /\ MeasuringSound /\ EvidenceSound /\ BaselineSound /\ RecordSound /\ HonestSound

LEMMA ChainDelivers == Chain => HonestDeltaIsOneExperiment
  BY DEF Chain, HonestSound, OneExperiment, Conserved, HonestDeltaIsOneExperiment

LEMMA EvidencedIsEvidential ==
    ASSUME NEW sheet, NEW series, series.heldout \in Documents
    PROVE  Evidential(Evidenced(sheet, series))
<1>1. /\ Evidenced(sheet, series).series = series
      /\ Evidenced(sheet, series).private =
             Tally(SideOf(sheet, Membership[series.heldout], RETRY_COUNT))
  BY DEF Evidenced
<1> QED
  BY <1>1, SideConserves DEF Evidential

\* What a seal covers it leaves as it was.
LEMMA SealedDigest ==
    ASSUME NEW document, NEW f \in DOMAIN document, f # "digest", Sealed(document)
    PROVE  document.digest[f] = document[f]
  BY DEF Sealed, Digest, Payload

LEMMA SealKeeps ==
    ASSUME NEW document, "digest" \notin DOMAIN document
    PROVE  /\ DOMAIN Seal(document) = DOMAIN document \cup {"digest"}
           /\ Seal(document).digest = Payload(document)
           /\ \A f \in DOMAIN document :
                 Seal(document)[f] = document[f] /\ Payload(document)[f] = document[f]
  BY DEF Seal, Digest, Payload

LEMMA DeclarationMeasuresNothing == ~Declaration.measured
<1> DEFINE body == [measured |-> FALSE]
<1>1. DOMAIN body = {"measured"} /\ ~body.measured
  OBVIOUS
<1>2. Declaration = Seal(body)
  BY DEF Declaration
<1> HIDE DEF body
<1> QED
  BY <1>1, <1>2, SealKeeps

LEMMA ReportIsMeasured ==
    ASSUME NEW e, Evidential(e)
    PROVE  Measured(BaselineReport(e))
<1> DEFINE body == [measured |-> TRUE, series |-> e.series,
                    sides    |-> [private |-> e.private, public |-> e.public],
                    n        |-> e.private.weaker_wins,
                    retries  |-> e.retries,
                    edited   |-> e.edited]
           b    == BaselineReport(e)
<1>1. b = Seal(body)
  BY DEF BaselineReport
<1>2. /\ DOMAIN body = {"measured", "series", "sides", "n", "retries", "edited"}
      /\ body.series = e.series /\ body.edited = e.edited
      /\ "private" \in DOMAIN body.sides /\ body.sides.private = e.private
  OBVIOUS
<1> HIDE DEF body, b
<1>3. /\ DOMAIN b = DOMAIN body \cup {"digest"} /\ b.digest = Payload(body)
      /\ b.sides = body.sides /\ b.series = body.series /\ b.edited = body.edited
      /\ Payload(body).sides = body.sides
  BY <1>1, <1>2, SealKeeps
<1>4. Measured(b)
  BY <1>2, <1>3 DEF Measured, Evidential
<1> QED
  BY <1>4 DEF b

\* An edit of the counts leaves the digest behind.
LEMMA EditLeavesSealBehind ==
    ASSUME NEW b, Measured(b), NEW by
    PROVE  Measured([b EXCEPT !.sides.private = Edited(@, by)])
<1> DEFINE c == [b EXCEPT !.sides.private = Edited(@, by)]
<1>1. /\ DOMAIN c = DOMAIN b /\ c.series = b.series /\ c.digest = b.digest /\ c.edited = b.edited
      /\ DOMAIN c.sides = DOMAIN b.sides
  BY DEF Measured
<1> HIDE DEF c
<1>2. Measured(c)
  BY <1>1 DEF Measured
<1> QED
  BY <1>2 DEF c

\* A sealed baseline and a record of one document are one experiment.
LEMMA PayloadIsOneExperiment ==
    ASSUME NEW b, NEW r, NEW l, NEW named, Measured(b), b.measured, BaselineRead(b), Compared(r),
           \A s \in {"candidate", "incumbent"} : RecordCountsRead(r.sides[s].private),
           r.heldout = b.series.heldout,
           named => BaseOf[r.candidate] = b.series.base /\ BaseOf[r.incumbent] = b.series.base
    PROVE  OneExperiment(HonestPayload(b, r, l, named))
<1> DEFINE h     == HonestPayload(b, r, l, named)
           sides == [baseline  |-> b.sides, candidate |-> r.sides.candidate,
                     incumbent |-> r.sides.incumbent]
           edited == [baseline |-> b.edited, candidate |-> r.edited, incumbent |-> r.edited]
           of     == [candidate |-> r.candidate, incumbent |-> r.incumbent]
<1>1. ~b.edited => Conserved(b.sides.private, Membership[r.heldout])
  <2>1. b.digest.sides = b.sides
    BY SealedDigest DEF Measured, BaselineRead
  <2> QED
    BY <2>1 DEF Measured
<1>2. /\ DOMAIN sides = {"baseline", "candidate", "incumbent"}
      /\ sides["baseline"] = b.sides
      /\ sides["candidate"] = r.sides["candidate"]
      /\ sides["incumbent"] = r.sides["incumbent"]
      /\ edited["baseline"] = b.edited
      /\ edited["candidate"] = r.edited /\ edited["incumbent"] = r.edited
      /\ DOMAIN of = {"candidate", "incumbent"}
      /\ of["candidate"] = r.candidate /\ of["incumbent"] = r.incumbent
  OBVIOUS
<1>3. /\ h.series = b.series /\ h.sides = sides
      /\ h.headline = IF Decided(r.decision) THEN {Headline(r.decision, sides)} ELSE {}
      /\ h.edited = edited /\ h.of = of /\ h.named = named
  BY DEF HonestPayload
<1>4. CountsRead(b.sides["private"])
  BY DEF BaselineRead, Measured
<1> HIDE DEF h, sides, edited, of
<1>5. h.named => \A s \in DOMAIN h.of : BaseOf[h.of[s]] = h.series.base
  BY <1>2, <1>3
<1>6. ASSUME NEW s \in DOMAIN h.sides
      PROVE  /\ h.sides[s].private.weaker_wins <= h.sides[s].private.denominator
             /\ s # "baseline" => h.sides[s].private.solved + h.sides[s].private.failed
                                       + h.sides[s].private.unverified = h.sides[s].private.denominator
             /\ ~h.edited[s] =>
                   /\ Conserved(h.sides[s].private, Membership[h.series.heldout])
                   /\ h.headline # {} /\ s # "baseline" => h.sides[s].private.unverified = 0
  <2>1. CASE s = "baseline"
    <3>1. h.sides[s].private = b.sides["private"] /\ h.edited[s] = b.edited
      BY <1>2, <1>3, <2>1
    <3> QED
      BY <1>1, <1>3, <1>4, <2>1, <3>1 DEF CountsRead
  <2>2. CASE s \in {"candidate", "incumbent"}
    <3>1. h.sides[s].private = r.sides[s].private /\ h.edited[s] = r.edited /\ s \in DOMAIN r.sides
      BY <1>2, <1>3, <2>2 DEF Compared
    <3>2. h.headline # {} => Decided(r.decision)
      BY <1>3
    <3>3. RecordCountsRead(r.sides[s].private)
      BY <2>2
    <3> QED
      BY <1>3, <3>1, <3>2, <3>3 DEF RecordCountsRead, Compared
  <2> QED
    BY <1>2, <1>3, <2>1, <2>2
<1>7. OneExperiment(h)
  BY <1>5, <1>6 DEF OneExperiment
<1> QED
  BY <1>7 DEF h

-----------------------------------------------------------------------------
(* Every step keeps the chain. *)

LEMMA InitChain == Init => Chain
<1> SUFFICES ASSUME Init PROVE Chain
  OBVIOUS
<1>1. Shapes
  BY EvidenceAssumption DEF Init, Shapes, EvidenceAssumption
<1>2. PICK home \in {None, Declaration} : baseline = [page |-> home, sidecar |-> home]
  BY DEF Init
<1>3. baseline.sidecar \in {None, Declaration}
  BY <1>2
<1>4. BaselineSound
  BY <1>3, DeclarationMeasuresNothing DEF BaselineSound, Readable
<1>5. /\ measuring = None /\ honest.sidecar = None
      /\ \A d \in Dirs : evidence[d] = None
      /\ \A g \in Gates : record[g] = None
  BY DEF Init
<1> QED
  BY <1>1, <1>4, <1>5
     DEF Chain, MeasuringSound, EvidenceSound, RecordSound, HonestSound, Readable

\* The nights and the reports of a morning leave the chain alone; so does a recut, which moves only
\* what later measurements and gates will be of.
LEMMA ChainStands ==
    ASSUME Chain, heldout' \in Documents,
           UNCHANGED <<evidence, record, baseline, honest, measuring>>
    PROVE  Chain'
  BY DEF Chain, Shapes, MeasuringSound, EvidenceSound, BaselineSound, RecordSound, HonestSound,
         Readable

LEMMA MeasureBeginsKeepsChain ==
    ASSUME Chain, NEW m \in Measurements, NEW c \in Untrained, MeasureBegins(m, c)
    PROVE  Chain'
<1>1. /\ measuring' = [run |-> m, checkpoint |-> c,
                       series |-> [base |-> BaseOf[c], heldout |-> heldout]]
      /\ UNCHANGED <<evidence, record, baseline, honest, heldout>>
  BY DEF MeasureBegins, reports
<1>2. measuring'.series.heldout \in Documents
  BY <1>1 DEF Chain, Shapes
<1> QED
  BY <1>1, <1>2
     DEF Chain, Shapes, MeasuringSound, EvidenceSound, BaselineSound, RecordSound, HonestSound,
         Readable

LEMMA EvidenceWriteKeepsChain ==
    ASSUME Chain, NEW found, measuring # None, measuring' = None,
           evidence' = [evidence EXCEPT ![measuring.run] = found],
           Readable(found) => Evidential(found),
           UNCHANGED <<record, baseline, honest, heldout>>
    PROVE  Chain'
<1>1. EvidenceSound'
  BY DEF Chain, Shapes, EvidenceSound, Readable
<1>2. Shapes'
  BY DEF Chain, Shapes
<1> QED
  BY <1>1, <1>2
     DEF Chain, MeasuringSound, BaselineSound, RecordSound, HonestSound, Readable

LEMMA MeasureKeepsChain ==
    ASSUME Chain, MeasureEnds \/ MeasureIsCut
    PROVE  Chain'
<1>1. CASE MeasureEnds
  <2>1. /\ measuring # None /\ measuring' = None
        /\ UNCHANGED <<record, baseline, honest, heldout>>
    BY <1>1 DEF MeasureEnds, reports
  <2>2. PICK sheet \in SheetsOf[measuring.checkpoint] :
            evidence' = [evidence EXCEPT ![measuring.run] = Evidenced(sheet, measuring.series)]
    BY <1>1 DEF MeasureEnds
  <2>3. Evidential(Evidenced(sheet, measuring.series))
    BY <2>1, EvidencedIsEvidential DEF Chain, MeasuringSound
  <2> QED
    BY <2>1, <2>2, <2>3, EvidenceWriteKeepsChain
<1>2. CASE MeasureIsCut
  BY <1>2, EvidenceWriteKeepsChain DEF MeasureIsCut, reports, Readable
<1> QED
  BY <1>1, <1>2

\* Whatever is written to the sidecar of the baseline.
LEMMA BaselineWriteKeepsChain ==
    ASSUME Chain, DOMAIN baseline' = {"page", "sidecar"},
           Readable(baseline'.sidecar) /\ baseline'.sidecar.measured => Measured(baseline'.sidecar),
           UNCHANGED <<evidence, record, honest, measuring, heldout>>
    PROVE  Chain'
  BY DEF Chain, Shapes, MeasuringSound, EvidenceSound, BaselineSound, RecordSound, HonestSound,
         Readable

LEMMA RenderKeepsChain ==
    ASSUME Chain, NEW m \in Measurements, RenderArtifact(m) \/ RenderIsCut(m)
    PROVE  Chain'
<1>1. /\ RenderReads(m)
      /\ UNCHANGED <<evidence, record, honest, measuring, heldout>>
  BY DEF RenderArtifact, RenderIsCut, runs
<1>2. Measured(BaselineReport(evidence[m]))
  BY <1>1, ReportIsMeasured DEF Chain, EvidenceSound, RenderReads, Dirs
<1>3. CASE RenderArtifact(m)
  <2>1. /\ DOMAIN baseline' = {"page", "sidecar"}
        /\ baseline'.sidecar = BaselineReport(evidence[m])
    BY <1>3 DEF RenderArtifact, WriteBaseline
  <2> QED
    BY <1>1, <1>2, <2>1, BaselineWriteKeepsChain
<1>4. CASE RenderIsCut(m)
  <2>1. PICK left \in {baseline.sidecar, Torn} :
            baseline' = [page |-> BaselinePage(BaselineReport(evidence[m])), sidecar |-> left]
    BY <1>4 DEF RenderIsCut
  <2>2. DOMAIN baseline' = {"page", "sidecar"} /\ baseline'.sidecar \in {baseline.sidecar, Torn}
    BY <2>1
  <2> QED
    BY <1>1, <2>2, BaselineWriteKeepsChain DEF Chain, BaselineSound, Readable
<1> QED
  BY <1>3, <1>4

LEMMA RenderDeclarationKeepsChain == ASSUME Chain, RenderDeclaration PROVE Chain'
<1>1. /\ DOMAIN baseline' = {"page", "sidecar"} /\ baseline'.sidecar = Declaration
      /\ UNCHANGED <<evidence, record, honest, measuring, heldout>>
  BY DEF RenderDeclaration, WriteBaseline, runs
<1> QED
  BY <1>1, DeclarationMeasuresNothing, BaselineWriteKeepsChain

LEMMA EditBaselineKeepsChain == ASSUME Chain, EditBaseline PROVE Chain'
<1>1. /\ Measured(baseline.sidecar) /\ DOMAIN baseline = {"page", "sidecar"}
      /\ UNCHANGED <<evidence, record, honest, measuring, heldout>>
  BY DEF EditBaseline, Chain, Shapes, BaselineSound, runs
<1>2. PICK by \in Edits : baseline' = [baseline EXCEPT !.sidecar.sides.private = Edited(@, by)]
  BY DEF EditBaseline
<1>3. /\ DOMAIN baseline' = DOMAIN baseline
      /\ baseline'.sidecar = [baseline.sidecar EXCEPT !.sides.private = Edited(@, by)]
  BY <1>1, <1>2
<1>4. Measured(baseline'.sidecar)
  BY <1>1, <1>3, EditLeavesSealBehind
<1> QED
  BY <1>1, <1>3, <1>4, BaselineWriteKeepsChain

\* What a hand makes of evidence or a record says of itself that it is edited.
LEMMA EditEvidenceKeepsChain ==
    ASSUME Chain, NEW m \in Measurements, EditEvidence(m)
    PROVE  Chain'
<1>1. PICK by \in Edits :
        evidence' = [evidence EXCEPT ![m].private = Edited(@, by), ![m].edited = TRUE]
  BY DEF EditEvidence
<1>2. UNCHANGED <<record, baseline, honest, measuring, heldout>> /\ Readable(evidence[m]) /\ m \in Dirs
  BY DEF EditEvidence, reports, Dirs
<1>3. Evidential(evidence[m])
  BY <1>2 DEF Chain, EvidenceSound
<1> DEFINE now == [evidence[m] EXCEPT !.private = Edited(@, by), !.edited = TRUE]
<1>4. evidence' = [evidence EXCEPT ![m] = now]
  BY <1>1
<1>5. Evidential(now)
  BY <1>3 DEF Evidential
<1> HIDE DEF now
<1>6. EvidenceSound' /\ Shapes'
  BY <1>2, <1>4, <1>5 DEF Chain, Shapes, EvidenceSound, Readable
<1> QED
  BY <1>2, <1>6 DEF Chain, MeasuringSound, BaselineSound, RecordSound, HonestSound, Readable

LEMMA RecordIsCompared ==
    ASSUME NEW c, NEW i, NEW new, NEW old, heldout \in Documents
    PROVE  Compared(RecordOf(c, i, new, old))
<1> DEFINE r    == RecordOf(c, i, new, old)
           mine == SideOf(new, Membership[heldout], RETRY_COUNT)
           his  == SideOf(old, Membership[heldout], RETRY_COUNT)
<1>1. /\ r.heldout = heldout /\ r.decision = Decision(mine, his)
      /\ DOMAIN r.sides = {"candidate", "incumbent"}
      /\ r.sides["candidate"].private = Tally(mine)
      /\ r.sides["incumbent"].private = Tally(his)
  BY DEF RecordOf, GateSide
<1>2. DOMAIN mine = DOMAIN his
  BY DEF SideOf
<1>3. Decided(r.decision) => Tally(mine).unverified = 0 /\ Tally(his).unverified = 0
  BY <1>1, <1>2, DecidedCovers
<1>4. Conserved(Tally(mine), Membership[heldout]) /\ Conserved(Tally(his), Membership[heldout])
  BY SideConserves
<1> HIDE DEF r, mine, his
<1>5. Compared(r)
  BY <1>1, <1>3, <1>4 DEF Compared
<1> QED
  BY <1>5 DEF r

LEMMA GateKeepsChain ==
    ASSUME Chain, NEW g \in Gates, Gate(g) \/ GateIsCut(g)
    PROVE  Chain'
<1>1. UNCHANGED <<evidence, heldout, baseline, honest, measuring>>
  BY DEF Gate, GateIsCut, reports
<1>2. PICK r : record' = [record EXCEPT ![g] = r] /\ (Readable(r) => Compared(r))
  <2>1. CASE Gate(g)
    <3>1. PICK c, i, new, old : record' = [record EXCEPT ![g] = RecordOf(c, i, new, old)]
      BY <2>1 DEF Gate
    <3> QED
      BY <3>1, RecordIsCompared DEF Chain, Shapes
  <2>2. CASE GateIsCut(g)
    BY <2>2 DEF GateIsCut, Readable
  <2> QED
    BY <2>1, <2>2
<1>3. RecordSound' /\ Shapes'
  BY <1>1, <1>2 DEF Chain, Shapes, RecordSound, Readable
<1> QED
  BY <1>1, <1>3
     DEF Chain, MeasuringSound, EvidenceSound, BaselineSound, HonestSound, Readable

LEMMA EditRecordKeepsChain ==
    ASSUME Chain, NEW g \in Gates, EditRecord(g)
    PROVE  Chain'
<1>1. PICK by \in Edits, s \in {"candidate", "incumbent"} :
        record' = [record EXCEPT ![g].sides[s].private = Edited(@, by), ![g].edited = TRUE]
  BY DEF EditRecord
<1>2. UNCHANGED <<evidence, baseline, honest, measuring, heldout>> /\ Readable(record[g])
  BY DEF EditRecord, reports
<1>3. Compared(record[g])
  BY <1>2 DEF Chain, RecordSound
<1> DEFINE now == [record[g] EXCEPT !.sides[s].private = Edited(@, by), !.edited = TRUE]
<1>4. record' = [record EXCEPT ![g] = now]
  BY <1>1
<1>5. Compared(now)
  BY <1>3 DEF Compared
<1> HIDE DEF now
<1>6. RecordSound' /\ Shapes'
  BY <1>2, <1>4, <1>5 DEF Chain, Shapes, RecordSound, Readable
<1> QED
  BY <1>2, <1>6 DEF Chain, MeasuringSound, BaselineSound, EvidenceSound, HonestSound, Readable

\* Whatever is written to the sidecar of the honest number.
LEMMA HonestWriteKeepsChain ==
    ASSUME Chain, DOMAIN honest' = {"page", "sidecar"},
           Readable(honest'.sidecar) /\ honest'.sidecar.measured => OneExperiment(honest'.sidecar),
           UNCHANGED <<evidence, record, baseline, measuring, heldout>>
    PROVE  Chain'
  BY DEF Chain, Shapes, MeasuringSound, EvidenceSound, BaselineSound, RecordSound, HonestSound,
         Readable

LEMMA HonestKeepsChain ==
    ASSUME Chain, NEW g \in Gates, NEW c, NEW i, Render(g, c, i) \/ HonestIsCut(g, c, i)
    PROVE  Chain'
<1>1. /\ HonestReads(g, c, i)
      /\ UNCHANGED <<evidence, record, baseline, measuring, heldout>>
  BY DEF Render, HonestIsCut, runs
<1>2. OneExperiment(HonestOf(g, c, i))
  <2>1. /\ Measured(baseline.sidecar) /\ baseline.sidecar.measured /\ BaselineRead(baseline.sidecar)
        /\ Compared(record[g])
        /\ \A s \in {"candidate", "incumbent"} : RecordCountsRead(record[g].sides[s].private)
        /\ record[g].heldout = baseline.sidecar.series.heldout
        /\ BaseOf[c] = baseline.sidecar.series.base /\ BaseOf[i] = BaseOf[c]
    BY <1>1 DEF HonestReads, RecordRead, SeriesAgrees, Chain, BaselineSound, RecordSound
  <2> QED
    BY <2>1, PayloadIsOneExperiment DEF HonestOf
<1>3. CASE Render(g, c, i)
  <2>1. DOMAIN honest' = {"page", "sidecar"} /\ honest'.sidecar = HonestOf(g, c, i)
    BY <1>3 DEF Render, WriteHonest
  <2> QED
    BY <1>1, <1>2, <2>1, HonestWriteKeepsChain
<1>4. CASE HonestIsCut(g, c, i)
  <2>1. PICK left \in {honest.sidecar, Torn} :
            honest' = [page |-> HonestPage(HonestOf(g, c, i)), sidecar |-> left]
    BY <1>4 DEF HonestIsCut
  <2>2. DOMAIN honest' = {"page", "sidecar"} /\ honest'.sidecar \in {honest.sidecar, Torn}
    BY <2>1
  <2> QED
    BY <1>1, <2>2, HonestWriteKeepsChain DEF Chain, HonestSound, Readable
<1> QED
  BY <1>3, <1>4

LEMMA HonestDeclarationKeepsChain == ASSUME Chain, HonestDeclaration PROVE Chain'
<1>1. /\ DOMAIN honest' = {"page", "sidecar"} /\ honest'.sidecar = Declaration
      /\ UNCHANGED <<evidence, record, baseline, measuring, heldout>>
  BY DEF HonestDeclaration, WriteHonest, runs
<1> QED
  BY <1>1, DeclarationMeasuresNothing, HonestWriteKeepsChain

LEMMA ElsewhereKeepsChain ==
    ASSUME Chain,
           \/ \E n \in Nights : NightBegins(n) \/ NightEnds(n) \/ NightIsSpoilt(n)
           \/ \E n \in Nights, c \in Copies : Copied(n, c)
           \/ MorningOfLast \/ MorningOfNamed
           \/ Recut
           \/ \E c \in Checkpoints : Damage(c)
    PROVE  Chain'
<1>1. UNCHANGED <<evidence, record, baseline, honest, measuring>>
  BY DEF NightBegins, NightEnds, NightIsSpoilt, Copied, MorningOfLast, MorningOfNamed,
         RenderMorning, Recut, Damage, runs, reports
<1>2. heldout' \in Documents
  BY DEF NightBegins, NightEnds, NightIsSpoilt, Copied, MorningOfLast, MorningOfNamed,
         RenderMorning, Recut, Damage, Chain, Shapes
<1> QED
  BY <1>1, <1>2, ChainStands

LEMMA NextChain == Chain /\ [Next]_vars => Chain'
<1> SUFFICES ASSUME Chain, [Next]_vars PROVE Chain'
  OBVIOUS
<1>1. CASE UNCHANGED vars
  BY <1>1, ChainStands DEF vars, runs, reports, Chain, Shapes
<1>2. CASE Next
  BY <1>2, MeasureBeginsKeepsChain, MeasureKeepsChain, RenderKeepsChain,
     RenderDeclarationKeepsChain, EditBaselineKeepsChain, EditEvidenceKeepsChain,
     EditRecordKeepsChain, GateKeepsChain, HonestKeepsChain,
     HonestDeclarationKeepsChain, ElsewhereKeepsChain DEF Next
<1> QED
  BY <1>1, <1>2

\* The published delta is one experiment, whatever was cut anew, measured again, gated or damaged in
\* between and however the sealed baseline was edited (honest_report.py:9-16): a side whose own
\* evidence no hand has changed counts the held-out tasks of the series and conserves them, the
\* gate's sides add up, and where the checkpoints named were those compared, so are their bases.
THEOREM HonestDeltaIsOneExperimentHolds == Spec => []HonestDeltaIsOneExperiment
<1>1. Init => Chain
  BY InitChain
<1>2. Chain /\ [Next]_vars => Chain'
  BY NextChain
<1>3. Chain => HonestDeltaIsOneExperiment
  BY ChainDelivers
<1> QED
  BY <1>1, <1>2, <1>3, PTL DEF Spec

-----------------------------------------------------------------------------
(* Types. *)

LEMMA InitTyped == Init => TypeOK
<1> SUFFICES ASSUME Init PROVE TypeOK
  OBVIOUS
<1>1. DOMAIN baseline = {"page", "sidecar"} /\ DOMAIN honest = {"page", "sidecar"}
  BY DEF Init
<1> QED
  BY <1>1, EvidenceAssumption DEF Init, TypeOK, EvidenceAssumption

\* What only an accident counts, and every step leaves within its bound.
LEMMA AccidentsBounded ==
    ASSUME TypeOK, Accident \/ UNCHANGED accidents
    PROVE  accidents' \in 0..MaxAccidents
  BY EvidenceAssumption DEF TypeOK, Accident, EvidenceAssumption

LEMMA NextAccidents == ASSUME Next PROVE Accident \/ UNCHANGED accidents
  BY DEF Next, NightBegins, NightEnds, NightIsSpoilt, Copied, Gate, GateIsCut, MeasureBegins,
     MeasureEnds, MeasureIsCut, RenderArtifact, RenderIsCut, RenderDeclaration,
     HonestDeclaration, Render, HonestIsCut, EditBaseline, EditEvidence, EditRecord, Recut, Damage, MorningOfLast,
     MorningOfNamed, RenderMorning

LEMMA NextDirectories ==
    ASSUME TypeOK, Next
    PROVE  /\ dirs' \subseteq Dirs /\ damaged' \subseteq Checkpoints /\ DOMAIN ledger' = DOMAIN ledger
  BY EvidenceAssumption
     DEF Next, NightBegins, NightEnds, NightIsSpoilt, Copied, Gate, GateIsCut, MeasureBegins,
     MeasureEnds, MeasureIsCut, RenderArtifact, RenderIsCut, RenderDeclaration,
     HonestDeclaration, Render, HonestIsCut, EditBaseline, EditEvidence, EditRecord, Recut, Damage, MorningOfLast,
     MorningOfNamed, RenderMorning, runs, TypeOK, Dirs

\* The type invariant, for every set of nights, gates, documents and every number of accidents.
THEOREM TypesHold == Spec => []TypeOK
<1>1. Init => Chain /\ TypeOK
  BY InitChain, InitTyped
<1>2. Chain /\ TypeOK /\ [Next]_vars => Chain' /\ TypeOK'
  <2> SUFFICES ASSUME Chain, TypeOK, [Next]_vars PROVE TypeOK'
    BY NextChain
  <2>1. Shapes'
    BY NextChain DEF Chain
  <2>2. CASE Next
    BY <2>1, <2>2, NextAccidents, AccidentsBounded, NextDirectories DEF TypeOK, Shapes
  <2>3. CASE UNCHANGED vars
    BY <2>3 DEF TypeOK, vars, runs, reports
  <2> QED
    BY <2>2, <2>3
<1> QED
  BY <1>1, <1>2, PTL DEF Spec

-----------------------------------------------------------------------------
(* The morning page. *)

LEMMA GateIsOfNight ==
    ASSUME NEW night, NEW gate \in GatesOf(night), gate # NoGate
    PROVE  \E g \in Gates : /\ Readable(record[g]) /\ record[g].decision = gate.decision
                            /\ night.checkpoint = record[g][gate.side]
<1>1. PICK g \in Gates : /\ RecordRead(g) /\ RecordIsOfNight(night, record[g])
                         /\ gate = GateSection(night, record[g])
  BY DEF GatesOf
<1>2. /\ gate.decision = record[g].decision
      /\ gate.side = IF record[g].candidate = night.checkpoint THEN "candidate" ELSE "incumbent"
  BY <1>1 DEF GateSection
<1> QED
  BY <1>1, <1>2 DEF RecordRead, RecordIsOfNight

\* The scan finds the run of the one directory whose date is the greatest, in that directory or in
\* another that holds a ledger of it.
LEMMA ScanFindsLast == MorningOfLast => IsLast(morning')
<1> SUFFICES ASSUME MorningOfLast PROVE IsLast(morning')
  OBVIOUS
<1>1. PICK d \in LastNights : RenderMorning(d)
  BY DEF MorningOfLast
<1>2. /\ \A e \in dirs : Readable(ledger[e])
      /\ \E last \in Latest(dirs) : d \in FirstOf(ledger[last].run, dirs)
  BY <1>1 DEF LastNights
<1>3. PICK last \in Latest(dirs) : d \in FirstOf(ledger[last].run, dirs)
  BY <1>2
<1>4. /\ last \in dirs /\ \A e \in dirs \ {last} : ledger[e].recorded_on < ledger[last].recorded_on
      /\ d \in dirs /\ ledger[d].run = ledger[last].run
  BY <1>3 DEF Latest, FirstOf
<1>5. morning'.run = ledger[d].run /\ morning'.recorded_on = ledger[d].recorded_on
  BY <1>1 DEF RenderMorning, MorningReport
<1>6. \/ morning'.recorded_on = ledger[last].recorded_on
      \/ \E e \in dirs \ {last} : ledger[e].run = morning'.run /\ ledger[e].recorded_on = morning'.recorded_on
  BY <1>4, <1>5
<1> QED
  BY <1>2, <1>4, <1>5, <1>6 DEF IsLast

\* What a morning step shows of a gate.
ShowsItsGate ==
    morning'.gate # NoGate => \E g \in Gates :
        /\ Readable(record[g]) /\ record[g].decision = morning'.gate.decision
        /\ morning'.checkpoint = record[g][morning'.gate.side]

LEMMA MorningShowsItsGate ==
    ASSUME [Next]_vars, morning' # morning
    PROVE  ShowsItsGate
<1>1. PICK d : RenderMorning(d)
  BY DEF Next, vars, runs, reports, NightBegins, NightEnds, NightIsSpoilt, Copied, Gate, GateIsCut,
         MeasureBegins, MeasureEnds, MeasureIsCut, RenderArtifact, RenderIsCut, RenderDeclaration,
         HonestDeclaration, Render, HonestIsCut, EditBaseline, EditEvidence, EditRecord, Recut, Damage,
         MorningOfLast, MorningOfNamed
<1>2. PICK gate \in GatesOf(ledger[d]) : morning' = MorningReport(ledger[d], gate)
  BY <1>1 DEF RenderMorning
<1>3. morning'.gate = gate /\ morning'.checkpoint = ledger[d].checkpoint
  BY <1>2 DEF MorningReport
<1> QED
  BY <1>3, GateIsOfNight DEF ShowsItsGate

\* The page called last night's is of the run that every other directory says was last, with the date
\* of the last directory unless another holds a ledger of that run id with the page's date; and the
\* gate it shows compared that night's checkpoint (morning.py:15-31).
THEOREM PageIsLastNightHolds == Spec => PageIsLastNight
<1>1. [Next]_vars => [(MorningOfLast => IsLast(morning')) /\ (morning' # morning => ShowsItsGate)]_vars
  BY ScanFindsLast, MorningShowsItsGate
<1> QED
  BY <1>1, PTL DEF Spec, PageIsLastNight, ShowsItsGate

-----------------------------------------------------------------------------
(* The stratum. *)

\* A finite set stands in a sequence of its elements and of nothing else.
LEMMA SequenceOfSet ==
    ASSUME NEW S, IsFiniteSet(S)
    PROVE  Range(SetToSeq(S)) \subseteq S
<1>1. PICK f : f \in Bijection(1..Cardinality(S), S)
  BY FS_CardinalityType DEF ExistsBijection
<1>2. f \in [1..Cardinality(S) -> S] /\ IsInjective(f)
  BY <1>1 DEF Bijection, Injection, IsInjective
<1>3. SetToSeq(S) \in [1..Cardinality(S) -> S]
  BY <1>2 DEF SetToSeq
<1> QED
  BY <1>3 DEF Range

\* What a corpus names is finite.
LEMMA NamedIsFinite ==
    ASSUME NEW S, NEW s \in Seq(S)
    PROVE  IsFiniteSet(Range(s)) /\ Range(s) \subseteq S
<1>1. DOMAIN s = 1..Len(s) /\ Len(s) \in Nat
  OBVIOUS
<1>2. IsFiniteSet(1..Len(s))
  BY <1>1, FS_Interval
<1>3. s \in Surjection(1..Len(s), Range(s))
  BY <1>1 DEF Surjection, Range
<1>4. IsFiniteSet(Range(s))
  BY <1>2, <1>3, FS_Surjection
<1> QED
  BY <1>1, <1>4 DEF Range

\* A task's difficulty is that of its donor's commit, whatever other donors can be read.
LEMMA SameFix ==
    ASSUME NEW task, NEW read, NEW donors, DifficultyOf(task, read) # None, task.repo \in donors
    PROVE  DifficultyOf(task, donors) = DifficultyOf(task, read)
<1>1. task.mined /\ FromDonor(task, read) # None
  BY Zenon DEF DifficultyOf
<1>2. task.repo \in read
  BY <1>1 DEF FromDonor
<1>3. FromDonor(task, donors) = FromDonor(task, read)
  BY <1>2 DEF FromDonor
<1> QED
  BY <1>1, <1>3, Zenon DEF DifficultyOf

\* What the digest of a composed document is of: its rule, and members the rule selects.
LEMMA ComposedMembers ==
    ASSUME NEW S, NEW ids \in Seq(S), NEW band, NEW read, ComposeDocument(band, ids, Fact, read) # None
    PROVE  LET digest == ComposeDocument(band, ids, Fact, read).document_digest
           IN  /\ digest["rule_digest"] = band
               /\ \A t \in Range(digest["membership"]) :
                     /\ DifficultyOf(Fact[t], read) # None
                     /\ InBand(band, DifficultyOf(Fact[t], read))
<1> DEFINE difficulty == [t \in Range(ids) |-> DifficultyOf(Fact[t], read)]
           measured   == {t \in Range(ids) : difficulty[t] # None}
           membership == {t \in measured : InBand(band, difficulty[t])}
           document   == [schema      |-> STRATUM_SCHEMA,
                          rule_digest |-> RuleDigest(band),
                          band        |-> band,
                          corpus      |-> Range(ids),
                          difficulty  |-> [t \in measured |-> difficulty[t]],
                          refusals    |-> Range(ids) \ measured,
                          membership  |-> SetToSeq(membership)]
<1>1. ComposeDocument(band, ids, Fact, read) = Sealing(document)
  BY Zenon DEF ComposeDocument
<1>2. Sealing(document).document_digest = DocumentDigestOf(document)
  BY DEF Sealing
<1>3. /\ DocumentDigestOf(document)["rule_digest"] = RuleDigest(band)
      /\ DocumentDigestOf(document)["membership"] = SetToSeq(membership)
  BY DEF DocumentDigestOf, DigestedFields
<1>4. Range(SetToSeq(membership)) \subseteq membership
  <2>1. IsFiniteSet(membership)
    BY NamedIsFinite, FS_Subset
  <2> QED
    BY <2>1, SequenceOfSet
<1>5. \A t \in membership : DifficultyOf(Fact[t], read) # None /\ InBand(band, DifficultyOf(Fact[t], read))
  OBVIOUS
<1> HIDE DEF document, membership
<1> QED
  BY <1>1, <1>2, <1>3, <1>4, <1>5 DEF RuleDigest

\* A run takes from a document none but tasks that BAND selects.
LEMMA ReadMembers ==
    ASSUME NEW document \in Strata, ReadDocument(document) # None, NEW t \in ReadDocument(document), t \in Tasks
    PROVE  LET difficulty == DifficultyOf(Fact[t], {Fact[x].repo : x \in Tasks})
           IN  difficulty # None /\ InBand(BAND, difficulty)
<1>1. /\ Recognised(document) /\ Unedited(document)
      /\ ReadDocument(document) = Range(document.membership)
  BY DEF ReadDocument
<1>2. "document_digest" \in DOMAIN document /\ document.rule_digest = BAND
  BY <1>1 DEF Recognised, RuleDigest
<1>3. /\ document.document_digest["rule_digest"] = BAND
      /\ document.document_digest["membership"] = document.membership
  BY <1>1, <1>2 DEF Unedited, DocumentDigestOf, DigestedFields
<1>4. PICK composed \in Composed : document.document_digest = composed.document_digest
  BY <1>2, BakeoffAssumption
<1>5. PICK band \in Bands, ids \in Corpora, read \in SUBSET {Fact[x].repo : x \in DOMAIN Fact} :
         composed = ComposeDocument(band, ids, Fact, read)
  BY <1>4 DEF Composed
<1>6. composed # None /\ ids \in Seq(DOMAIN Fact)
  BY <1>4, BakeoffAssumption DEF Composed
<1>7. /\ band = BAND
      /\ DifficultyOf(Fact[t], read) # None /\ InBand(band, DifficultyOf(Fact[t], read))
  BY <1>1, <1>3, <1>4, <1>5, <1>6, ComposedMembers
<1> QED
  BY <1>7, SameFix

-----------------------------------------------------------------------------
(* What a run is of. *)

\* The run that is on, and what it holds.
OfTheRun ==
    run # None =>
        /\ run.private \subseteq PrivateTasks /\ run.public \subseteq PublicTasks
        /\ run.candidates \subseteq Contenders
        /\ ended \subseteq run.candidates
        /\ DOMAIN steps \subseteq run.candidates \X Swept

\* What an operator may have asked for, and what it freezes.
LEMMA BeginSays ==
    ASSUME Begin
    PROVE  /\ run = None /\ starts' = starts + 1 /\ starts < MaxStarts
           /\ run'.private \subseteq PrivateTasks /\ run'.public \subseteq PublicTasks
           /\ run'.candidates \subseteq Contenders
           /\ run'.done = journal \/ DOMAIN run'.done = {}
           /\ run'.restricted =>
                 \A t \in run'.private :
                    LET difficulty == DifficultyOf(Fact[t], {Fact[x].repo : x \in Tasks})
                    IN  difficulty # None /\ InBand(BAND, difficulty)
           /\ UNCHANGED <<world, journal, report, steps, ended, writing, mishaps>>
<1> DEFINE membersOf(args) == IF args.stratum = None THEN PrivateTasks ELSE Members(args.stratum)
           privateOf(args) == membersOf(args) \ args.dev
<1>1. PICK args \in Arguments :
         /\ membersOf(args) # None
         /\ run' = [private |-> IF args.probe # None THEN First(args.probe, privateOf(args)) ELSE privateOf(args),
                    public  |-> IF args.probe # None THEN {} ELSE PublicTasks \ args.dev,
                    dev |-> args.dev, restricted |-> args.stratum # None,
                    probe |-> args.probe # None, recorded_on |-> args.recorded_on,
                    contract |-> Freeze(privateOf(args) \cup (PublicTasks \ args.dev)),
                    candidates |-> SelectCandidates(args.only),
                    done |-> IF args.journaled /\ ~(args.probe # None) THEN journal ELSE Nothing,
                    journaled |-> args.journaled /\ ~(args.probe # None)]
  BY Zenon DEF Begin
<1>2. run'.private \subseteq privateOf(args)
  BY <1>1 DEF First
<1>3. membersOf(args) \subseteq PrivateTasks
  BY <1>1 DEF Members, IncludeStratum
<1>4. run'.candidates \subseteq Contenders
  <2>1. args.only \subseteq Contenders
    BY BakeoffAssumption DEF Arguments
  <2> QED
    BY <1>1, <2>1 DEF SelectCandidates
<1>5. ASSUME run'.restricted, NEW t \in run'.private
      PROVE  DifficultyOf(Fact[t], {Fact[x].repo : x \in Tasks}) # None
             /\ InBand(BAND, DifficultyOf(Fact[t], {Fact[x].repo : x \in Tasks}))
  <2>1. args.stratum # None /\ args.stratum \in Strata
    BY <1>1, <1>5 DEF Arguments
  <2>2. ReadDocument(args.stratum) # None /\ Members(args.stratum) = ReadDocument(args.stratum)
    BY <1>1, <2>1 DEF Members, IncludeStratum
  <2>3. t \in ReadDocument(args.stratum) /\ t \in Tasks
    BY <1>2, <1>3, <1>5, <2>1, <2>2 DEF Tasks
  <2> QED
    BY <2>1, <2>2, <2>3, ReadMembers
<1>6. /\ run'.public \subseteq PublicTasks
      /\ run'.done = journal \/ run'.done = Nothing
  BY <1>1
<1>7. DOMAIN Nothing = {}
  BY DEF Nothing
<1>8. /\ run = None /\ starts' = starts + 1 /\ starts < MaxStarts
      /\ UNCHANGED <<world, journal, report, steps, ended, writing, mishaps>>
  BY DEF Begin
<1> QED
  BY <1>2, <1>3, <1>4, <1>5, <1>6, <1>7, <1>8

-----------------------------------------------------------------------------
(* Types. *)

\* A process that is not there holds nothing.
AtRest ==
    run = None => DOMAIN steps = {} /\ ended = {} /\ writing = 0

Kinds == BakeoffTypeOK /\ OfTheRun /\ AtRest /\ DOMAIN report = Paths

\* A report's files, in the order they are written.
LEMMA FileNames == Files[1] = "page" /\ Files[2] = "sidecar" /\ Files[3] = "cost" /\ Len(Files) = 3
BY DEF Files

\* What With changes, and what not.
LEMMA WithSays ==
    ASSUME NEW f, NEW x, NEW v
    PROVE  /\ DOMAIN With(f, x, v) = DOMAIN f \cup {x} /\ With(f, x, v)[x] = v
           /\ \A y \in DOMAIN f : y # x => With(f, x, v)[y] = f[y]
BY DEF With

\* What is due is of the run, of a candidate whose sweeps are not over, and not yet held.
LEMMA DueIs ==
    ASSUME run # None, NEW ct \in Due
    PROVE  /\ ct \in run.candidates \X Swept /\ ct \notin DOMAIN steps
           /\ ended # run.candidates
<1>1. PICK c \in InHand : ct \in Remaining(c)
  BY DEF Due
<1>2. c \in run.candidates /\ c \notin ended
  BY <1>1 DEF InHand
<1> QED
  BY <1>1, <1>2 DEF Remaining

\* One step more: a replayed one is on record, a scored one is posed by the contract.
LEMMA StepAdds ==
    ASSUME Replay \/ Score
    PROVE  /\ run # None /\ UNCHANGED <<world, report, run, ended, writing, starts, mishaps>>
           /\ \E ct \in Due : \E v :
                 /\ steps' = With(steps, ct, v)
                 /\ ct \notin DOMAIN run.done /\ v.prompt # None => v.prompt \in run.contract
                 /\ \/ ct \in DOMAIN run.done /\ journal' = journal
                    \/ ct \notin DOMAIN run.done /\ journal' = IF run.journaled THEN With(journal, ct, v) ELSE journal
<1>1. CASE Replay
  BY <1>1 DEF Replay
<1>2. CASE Score
  <2>0. PICK ct \in Due \ DOMAIN run.done : \E found \in Found(ct[1], ct[2]) :
            /\ Asks(found) => SealedPrompt(Prompt(ct[2]))
            /\ steps'   = With(steps, ct, Step(found, ct[2]))
            /\ journal' = IF run.journaled THEN With(journal, ct, Step(found, ct[2])) ELSE journal
    BY <1>2 DEF Score
  <2>1. PICK found \in Found(ct[1], ct[2]) :
            /\ Asks(found) => SealedPrompt(Prompt(ct[2]))
            /\ steps'   = With(steps, ct, Step(found, ct[2]))
            /\ journal' = IF run.journaled THEN With(journal, ct, Step(found, ct[2])) ELSE journal
    BY <2>0
  <2>2. Step(found, ct[2]).prompt = IF Asks(found) THEN Prompt(ct[2]) ELSE None
    BY DEF Step
  <2>3. Step(found, ct[2]).prompt # None => Step(found, ct[2]).prompt \in run.contract
    BY <2>1, <2>2 DEF SealedPrompt
  <2>4. run # None /\ UNCHANGED <<world, report, run, ended, writing, starts, mishaps>>
    BY <1>2 DEF Score
  <2> QED
    BY <2>1, <2>3, <2>4
<1> QED
  BY <1>1, <1>2

LEMMA InitKinds == BakeoffInit => Kinds
<1> SUFFICES ASSUME BakeoffInit PROVE Kinds
  OBVIOUS
<1>1. DOMAIN Nothing = {}
  BY DEF Nothing
<1>2. starts \in 0..MaxStarts /\ mishaps \in 0..MaxMishaps /\ writing \in 0..2 /\ writing = 0
  BY BakeoffAssumption DEF BakeoffInit
<1> QED
  BY <1>1, <1>2 DEF BakeoffInit, Kinds, BakeoffTypeOK, OfTheRun, AtRest

\* However a run ends, nothing of it stays in memory.
LEMMA DiesKinds ==
    ASSUME Kinds, Dies, UNCHANGED <<journal, starts>>, mishaps' \in 0..MaxMishaps, DOMAIN report' = Paths
    PROVE  Kinds'
<1>1. DOMAIN Nothing = {}
  BY DEF Nothing
<1>2. writing' \in 0..2 /\ ~(writing' > 0)
  BY DEF Dies
<1> QED
  BY <1>1, <1>2 DEF Dies, Kinds, BakeoffTypeOK, OfTheRun, AtRest

LEMMA NextKinds == Kinds /\ [BakeoffNext]_bakeoffVars => Kinds'
<1> SUFFICES ASSUME Kinds, [BakeoffNext]_bakeoffVars PROVE Kinds'
  OBVIOUS
<1>0. /\ MaxStarts \in Nat /\ MaxMishaps \in Nat /\ starts \in Nat /\ mishaps \in Nat
      /\ mishaps \in 0..MaxMishaps
  BY BakeoffAssumption DEF Kinds, BakeoffTypeOK
<1>1. CASE Begin
  <2>1. starts' \in 0..MaxStarts
    BY <1>0, <1>1, BeginSays
  <2>2. run = None /\ DOMAIN steps = {} /\ ended = {} /\ writing = 0
    BY <1>1, BeginSays DEF Kinds, AtRest
  <2> QED
    BY <1>1, <2>1, <2>2, BeginSays DEF Kinds, BakeoffTypeOK, OfTheRun, AtRest
<1>2. CASE Replay \/ Score
  <2>0. PICK ct \in Due : \E v :
            /\ steps' = With(steps, ct, v)
            /\ \/ ct \in DOMAIN run.done /\ journal' = journal
               \/ ct \notin DOMAIN run.done /\ journal' = IF run.journaled THEN With(journal, ct, v) ELSE journal
    BY <1>2, StepAdds
  <2>1. PICK v :
            /\ steps' = With(steps, ct, v)
            /\ \/ ct \in DOMAIN run.done /\ journal' = journal
               \/ ct \notin DOMAIN run.done /\ journal' = IF run.journaled THEN With(journal, ct, v) ELSE journal
    BY <2>0
  <2>2. run # None /\ UNCHANGED <<report, run, ended, writing, starts, mishaps>>
    BY <1>2, StepAdds
  <2>3. ct \in run.candidates \X Swept /\ ct \in Contenders \X Tasks
    <3>1. ct \in run.candidates \X Swept
      BY <2>2, DueIs
    <3>2. run.candidates \subseteq Contenders /\ Swept \subseteq Tasks
      BY <2>2 DEF Kinds, OfTheRun, Swept, Tasks
    <3> QED
      BY <3>1, <3>2
  <2>4. /\ DOMAIN steps' = DOMAIN steps \cup {ct}
        /\ DOMAIN journal' \subseteq DOMAIN journal \cup {ct}
    <3>1. journal' = journal \/ journal' = With(journal, ct, v)
      BY <2>1
    <3>2. DOMAIN With(journal, ct, v) = DOMAIN journal \cup {ct}
      BY WithSays, Zenon
    <3>3. DOMAIN steps' = DOMAIN steps \cup {ct}
      <4>1. DOMAIN With(steps, ct, v) = DOMAIN steps \cup {ct}
        BY WithSays, Zenon
      <4> QED
        BY <2>1, <4>1
    <3> QED
      BY <3>1, <3>2, <3>3
  <2>5. Swept' = Swept
    BY <2>2 DEF Swept
  <2> QED
    BY <2>2, <2>3, <2>4, <2>5 DEF Kinds, BakeoffTypeOK, OfTheRun, AtRest, AllSwept
<1>3. CASE ContractChanged
  BY <1>0, <1>3, DiesKinds DEF ContractChanged, Kinds
<1>4. CASE CandidateEnds
  <2>1. PICK c \in InHand : IF run.probe \/ (Proven(c) /\ Size[c] # None)
             THEN ended' = ended \cup {c} /\ UNCHANGED <<run, steps, writing>>
             ELSE Dies
    BY <1>4 DEF CandidateEnds
  <2>2. run # None /\ UNCHANGED <<world, journal, report, starts, mishaps>>
    BY <1>4 DEF CandidateEnds
  <2>3. CASE Dies
    BY <1>0, <2>2, <2>3, DiesKinds DEF Kinds
  <2>4. CASE ended' = ended \cup {c} /\ UNCHANGED <<run, steps, writing>>
    <3>1. c \in run.candidates /\ ended # run.candidates
      BY DEF InHand
    <3>2. Swept' = Swept
      BY <2>4 DEF Swept
    <3>3. ~(writing > 0)
      BY <3>1 DEF Kinds, BakeoffTypeOK, AllSwept
    <3> QED
      BY <2>2, <2>4, <3>1, <3>2, <3>3 DEF Kinds, BakeoffTypeOK, OfTheRun, AtRest
  <2> QED
    BY <2>1, <2>3, <2>4
<1>5. CASE ProbeEnds \/ ReportRefused
  <2>1. DOMAIN report' = Paths /\ Dies /\ UNCHANGED <<journal, starts, mishaps>>
    BY <1>5 DEF ProbeEnds, ReportRefused, Kinds
  <2> QED
    BY <1>0, <2>1, DiesKinds
<1>6. CASE Publish
  <2>1. DOMAIN report' = Paths /\ UNCHANGED <<journal, starts, mishaps>>
    BY <1>6 DEF Publish, Kinds
  <2>2. CASE Dies
    BY <1>0, <2>1, <2>2, DiesKinds
  <2>3. CASE writing + 1 # Len(Files) /\ writing' = writing + 1 /\ UNCHANGED <<run, steps, ended>>
    <3>1. writing' \in 0..2
      BY <2>3, FileNames DEF Kinds, BakeoffTypeOK
    <3>2. AllSwept /\ run # None /\ AllSwept'
      BY <1>6, <2>3 DEF Publish, Reporting, AllSwept
    <3>3. Swept' = Swept
      BY <2>3 DEF Swept
    <3> QED
      BY <2>1, <2>3, <3>1, <3>2, <3>3 DEF Kinds, BakeoffTypeOK, OfTheRun, AtRest
  <2> QED
    BY <1>6, <2>2, <2>3 DEF Publish
<1>7. CASE RenderArm
  <2>1. DOMAIN report' = Paths /\ UNCHANGED <<journal, run, steps, ended, writing, starts, mishaps>>
    BY <1>7 DEF RenderArm, Kinds, memory
  <2> QED
    BY <2>1 DEF Kinds, BakeoffTypeOK, OfTheRun, AtRest, AllSwept, Swept
<1>8. CASE Kill
  <2>1. DOMAIN report' = Paths /\ Dies /\ UNCHANGED <<journal, starts>>
    BY <1>8 DEF Kill, Kinds
  <2>2. mishaps' \in 0..MaxMishaps
    BY <1>0, <1>8 DEF Kill, Mishap
  <2> QED
    BY <2>1, <2>2, DiesKinds
<1>9. ASSUME NEW r, PoolIsFetchedAgain \/ WeightsAreReplaced \/ RepositoryIsLost(r)
      PROVE  Kinds'
  <2>1. UNCHANGED <<report, journal, run, steps, ended, writing, starts>>
    BY <1>9 DEF PoolIsFetchedAgain, WeightsAreReplaced, RepositoryIsLost, memory
  <2>2. mishaps' \in 0..MaxMishaps
    BY <1>0, <1>9 DEF PoolIsFetchedAgain, WeightsAreReplaced, RepositoryIsLost, Mishap
  <2> QED
    BY <2>1, <2>2 DEF Kinds, BakeoffTypeOK, OfTheRun, AtRest, AllSwept, Swept
<1>10. CASE UNCHANGED bakeoffVars
  BY <1>10 DEF bakeoffVars, memory, Kinds, BakeoffTypeOK, OfTheRun, AtRest, AllSwept, Swept
<1> QED
  BY <1>1, <1>2, <1>3, <1>4, <1>5, <1>6, <1>7, <1>8, <1>9, <1>10 DEF BakeoffNext

\* The types of the bake-off's state, for any corpora, candidates and arguments.
THEOREM BakeoffTypesHold == BakeoffSpec => []BakeoffTypeOK
<1>1. Kinds => BakeoffTypeOK
  BY DEF Kinds
<1> QED
  BY <1>1, InitKinds, NextKinds, PTL DEF BakeoffSpec

-----------------------------------------------------------------------------
\* Only Begin takes a run from a document.
LEMMA NextStratum == StratumIsTheRules /\ [BakeoffNext]_bakeoffVars => StratumIsTheRules'
<1> SUFFICES ASSUME StratumIsTheRules, [BakeoffNext]_bakeoffVars PROVE StratumIsTheRules'
  OBVIOUS
<1>1. CASE Begin
  BY <1>1, BeginSays DEF StratumIsTheRules
<1>2. CASE UNCHANGED run
  BY <1>2 DEF StratumIsTheRules
<1>3. CASE Dies
  BY <1>3 DEF Dies, StratumIsTheRules
<1>4. CASE Publish \/ CandidateEnds
  BY <1>2, <1>3, <1>4 DEF Publish, CandidateEnds
<1>5. CASE Replay \/ Score \/ RenderArm \/ PoolIsFetchedAgain \/ WeightsAreReplaced
  BY <1>2, <1>5 DEF Replay, Score, RenderArm, PoolIsFetchedAgain, WeightsAreReplaced, memory
<1>6. CASE ContractChanged \/ ProbeEnds \/ ReportRefused \/ Kill
  BY <1>3, <1>6 DEF ContractChanged, ProbeEnds, ReportRefused, Kill
<1>7. CASE \E r \in {Fact[t].repo : t \in Tasks} : RepositoryIsLost(r)
  BY <1>2, <1>7 DEF RepositoryIsLost, memory
<1>8. CASE UNCHANGED bakeoffVars
  BY <1>2, <1>8 DEF bakeoffVars, memory
<1> QED
  BY <1>1, <1>4, <1>5, <1>6, <1>7, <1>8 DEF BakeoffNext

\* Of any corpora, stratum documents, edits and arguments: a run a stratum restricts takes only tasks
\* whose own fix its rule selects, whatever donors could be read when the document was composed
\* (stratum.py:478-649, run.py:606-622).
THEOREM StratumIsTheRulesHolds == BakeoffSpec => []StratumIsTheRules
<1>1. BakeoffInit => StratumIsTheRules
  BY DEF BakeoffInit, StratumIsTheRules
<1> QED
  BY <1>1, NextStratum, PTL DEF BakeoffSpec

-----------------------------------------------------------------------------
(* Counts. *)

\* Some natural number is the least of any.
LEMMA LeastOf ==
    ASSUME NEW S \in SUBSET Nat, S # {}
    PROVE  \E n \in S : \A k \in S : n <= k
<1>1. PICK n \in S : \A k \in S : ~ (<<k, n>> \in OpToRel(<, Nat))
  BY NatLessThanWellFounded, WFMin
<1>2. \A k \in S : ~ (k < n)
  BY <1>1 DEF OpToRel
<1> QED
  BY <1>2

\* The tasks of a run can be counted.
LEMMA TasksAreFinite ==
    ASSUME NEW S, S \subseteq Tasks
    PROVE  IsFiniteSet(S) /\ Cardinality(S) \in Nat
<1>1. IsFiniteSet(PrivateTasks) /\ IsFiniteSet(PublicTasks)
  BY BakeoffAssumption, NamedIsFinite DEF PrivateTasks, PublicTasks
<1>2. IsFiniteSet(Tasks)
  BY <1>1, FS_Union DEF Tasks
<1> QED
  BY <1>2, FS_Subset, FS_CardinalityType

\* What Tally counts, field by field.
LEMMA TallyIs ==
    ASSUME NEW side
    PROVE  LET all        == Cardinality(DOMAIN side)
               unverified == Cardinality({t \in DOMAIN side : side[t].outcome \in Uncovered})
               solved     == Cardinality({t \in DOMAIN side : side[t].outcome = "SOLVED"})
               wins       == Cardinality({t \in DOMAIN side : side[t].weak = "PASS" /\ side[t].strict = "FAIL"})
           IN  /\ Tally(side)["denominator"] = all
               /\ Tally(side)["solved"] = solved
               /\ Tally(side)["unverified"] = unverified
               /\ Tally(side)["covered"] = all - unverified
               /\ Tally(side)["failed"] = all - unverified - solved
               /\ Tally(side)["weaker_wins"] = wins
  BY DEF Tally, HowMany

\* Two sides of no common task, and the one of both.
Joined(a, b, c) ==
    /\ IsFiniteSet(DOMAIN a) /\ IsFiniteSet(DOMAIN b) /\ DOMAIN a \cap DOMAIN b = {}
    /\ DOMAIN c = DOMAIN a \cup DOMAIN b
    /\ \A t \in DOMAIN a : c[t] = a[t]
    /\ \A t \in DOMAIN b : c[t] = b[t]

\* Every count of both is the sum of the two.
LEMMA TallyAdds ==
    ASSUME NEW a, NEW b, NEW c, Joined(a, b, c)
    PROVE  \A f \in Fields : Tally(c)[f] = Tally(a)[f] + Tally(b)[f]
<1>0. /\ IsFiniteSet(DOMAIN a) /\ IsFiniteSet(DOMAIN b) /\ DOMAIN a \cap DOMAIN b = {}
      /\ DOMAIN c = DOMAIN a \cup DOMAIN b
      /\ \A t \in DOMAIN a : c[t] = a[t]
      /\ \A t \in DOMAIN b : c[t] = b[t]
  BY DEF Joined
<1>1. ASSUME NEW A, NEW B, A \subseteq DOMAIN a, B \subseteq DOMAIN b
      PROVE  /\ Cardinality(A \cup B) = Cardinality(A) + Cardinality(B)
             /\ Cardinality(A) \in Nat /\ Cardinality(B) \in Nat
  <2>1. IsFiniteSet(A) /\ IsFiniteSet(B) /\ A \cap B = {}
    BY <1>0, <1>1, FS_Subset
  <2>2. Cardinality(A) \in Nat /\ Cardinality(B) \in Nat
    BY <2>1, FS_CardinalityType
  <2>3. Cardinality(A \cup B) = Cardinality(A) + Cardinality(B) - Cardinality(A \cap B)
    BY <2>1, FS_Union
  <2>4. Cardinality(A \cap B) = 0
    BY <2>1, FS_EmptySet
  <2> QED
    BY <2>2, <2>3, <2>4
<1> DEFINE U(s) == {t \in DOMAIN s : s[t].outcome \in Uncovered}
           V(s) == {t \in DOMAIN s : s[t].outcome = "SOLVED"}
           W(s) == {t \in DOMAIN s : s[t].weak = "PASS" /\ s[t].strict = "FAIL"}
<1>2. /\ U(c) = U(a) \cup U(b) /\ V(c) = V(a) \cup V(b) /\ W(c) = W(a) \cup W(b)
      /\ U(a) \subseteq DOMAIN a /\ V(a) \subseteq DOMAIN a /\ W(a) \subseteq DOMAIN a
      /\ U(b) \subseteq DOMAIN b /\ V(b) \subseteq DOMAIN b /\ W(b) \subseteq DOMAIN b
  BY <1>0
<1>3. \A s \in {a, b, c} :
         /\ Tally(s)["denominator"] = Cardinality(DOMAIN s)
         /\ Tally(s)["solved"] = Cardinality(V(s))
         /\ Tally(s)["unverified"] = Cardinality(U(s))
         /\ Tally(s)["covered"] = Cardinality(DOMAIN s) - Cardinality(U(s))
         /\ Tally(s)["failed"] = Cardinality(DOMAIN s) - Cardinality(U(s)) - Cardinality(V(s))
         /\ Tally(s)["weaker_wins"] = Cardinality(W(s))
  BY TallyIs
<1> HIDE DEF U, V, W
<1>4. /\ Cardinality(U(c)) = Cardinality(U(a)) + Cardinality(U(b))
      /\ Cardinality(U(a)) \in Nat /\ Cardinality(U(b)) \in Nat
  BY <1>1, <1>2
<1>5. /\ Cardinality(V(c)) = Cardinality(V(a)) + Cardinality(V(b))
      /\ Cardinality(V(a)) \in Nat /\ Cardinality(V(b)) \in Nat
  BY <1>1, <1>2
<1>6. Cardinality(W(c)) = Cardinality(W(a)) + Cardinality(W(b))
  BY <1>1, <1>2
<1>7. /\ Cardinality(DOMAIN c) = Cardinality(DOMAIN a) + Cardinality(DOMAIN b)
      /\ Cardinality(DOMAIN a) \in Nat /\ Cardinality(DOMAIN b) \in Nat
  BY <1>0, <1>1
<1>8. SUFFICES ASSUME NEW f \in Fields
               PROVE  Tally(c)[f] = Tally(a)[f] + Tally(b)[f]
  OBVIOUS
<1>9. CASE f = "denominator" \/ f = "solved" \/ f = "unverified" \/ f = "weaker_wins"
  BY <1>3, <1>4, <1>5, <1>6, <1>7, <1>9
<1>10. CASE f = "covered"
  BY <1>3, <1>4, <1>7, <1>10
<1>11. CASE f = "failed"
  BY <1>3, <1>4, <1>5, <1>7, <1>11
<1> QED
  BY <1>8, <1>9, <1>10, <1>11 DEF Fields

\* Among the counted somebody stands before all others.
LEMMA SomebodyLeads ==
    ASSUME NEW counts, DOMAIN counts \subseteq Contenders, DOMAIN counts # {},
           NEW most \in Nat, \A c \in DOMAIN counts : counts[c].private.solved \in 0..most /\ Size[c] \in Nat
    PROVE  Leads(counts) # {}
<1> DEFINE D == DOMAIN counts
           solved(c) == counts[c].private.solved
           place(c) == Place(Candidates, c)
<1>1. PICK b \in D : \A d \in D : solved(d) <= solved(b)
  <2>1. PICK n \in {most - solved(d) : d \in D} : \A k \in {most - solved(d) : d \in D} : n <= k
    <3>1. {most - solved(d) : d \in D} \in SUBSET Nat /\ {most - solved(d) : d \in D} # {}
      OBVIOUS
    <3> QED
      BY <3>1, LeastOf
  <2>2. PICK b \in D : n = most - solved(b)
    BY <2>1
  <2>3. ASSUME NEW d \in D
        PROVE  solved(d) <= solved(b)
    <3>1. most - solved(b) <= most - solved(d)
      BY <2>1, <2>2
    <3> QED
      BY <3>1
  <2> QED
    BY <2>3
<1> DEFINE E == {d \in D : solved(d) = solved(b)}
<1>2. PICK s \in E : \A d \in E : Size[s] <= Size[d]
  <2>1. {Size[d] : d \in E} \in SUBSET Nat /\ {Size[d] : d \in E} # {}
    OBVIOUS
  <2>2. PICK n \in {Size[d] : d \in E} : \A k \in {Size[d] : d \in E} : n <= k
    BY <2>1, LeastOf
  <2> QED
    BY <2>2
<1> DEFINE G == {d \in E : Size[d] = Size[s]}
<1>3. \A d \in D : place(d) \in Nat /\ Candidates[place(d)] = d
  <2>1. DOMAIN Candidates \subseteq Nat
    BY BakeoffAssumption
  <2>2. \A d \in D : \E k \in DOMAIN Candidates : Candidates[k] = d
    BY DEF Contenders, Range
  <2> QED
    BY <2>1, <2>2 DEF Place
<1>4. PICK p \in G : \A d \in G : place(p) <= place(d)
  <2>1. {place(d) : d \in G} \in SUBSET Nat /\ {place(d) : d \in G} # {}
    BY <1>3
  <2> HIDE DEF G, place
  <2>2. PICK n \in {place(d) : d \in G} : \A k \in {place(d) : d \in G} : n <= k
    BY <2>1, LeastOf
  <2> QED
    BY <2>2
<1>5. ASSUME NEW d \in D \ {p}
      PROVE  Before(counts, p, d)
  <2>1. solved(p) = solved(b) /\ Size[p] = Size[s] /\ p \in D
    OBVIOUS
  <2>2. solved(d) <= solved(p) /\ solved(d) \in Nat /\ solved(p) \in Nat /\ Size[d] \in Nat /\ Size[p] \in Nat
    BY <1>1, <2>1
  <2>3. CASE solved(d) # solved(p)
    BY <2>2, <2>3 DEF Before
  <2>4. CASE solved(d) = solved(p) /\ Size[d] # Size[p]
    <3>1. Size[s] <= Size[d]
      BY <1>2, <2>1, <2>4
    <3> QED
      BY <2>1, <2>2, <2>4, <3>1 DEF Before
  <2>5. CASE solved(d) = solved(p) /\ Size[d] = Size[p]
    <3>1. place(p) <= place(d)
      BY <1>4, <2>1, <2>5
    <3>2. place(p) # place(d) /\ place(p) \in Nat /\ place(d) \in Nat
      BY <1>3, <2>1
    <3>3. place(p) < place(d)
      BY <3>1, <3>2
    <3> QED
      BY <2>5, <3>3 DEF Before
  <2> QED
    BY <2>3, <2>4, <2>5
<1>6. p \in Leads(counts)
  BY <1>5 DEF Leads, Ranking
<1> QED
  BY <1>6

-----------------------------------------------------------------------------
(* What a run's record is of. *)

\* What is held of a candidate whose sweeps are over: every task, and, but for a probe, a harness
\* that was shown to work.
Scored ==
    run # None => \A c \in ended :
                     /\ \A t \in Swept : <<c, t>> \in DOMAIN steps
                     /\ ~run.probe => Proven(c) /\ Size[c] # None

\* What this process asked, its contract poses.
Posed ==
    run # None => \A ct \in DOMAIN steps \ DOMAIN run.done :
                     steps[ct].prompt # None => steps[ct].prompt \in run.contract

\* The sidecar of the only run there was, beside the journal of that run.
FirstRun ==
    /\ starts = 0 => run = None /\ DOMAIN journal = {} /\ report["sidecar"] = None
    /\ starts = 1 /\ run # None =>
          /\ DOMAIN run.done = {}
          /\ run.journaled  => DOMAIN journal = DOMAIN steps /\ \A ct \in DOMAIN steps : journal[ct] = steps[ct]
          /\ ~run.journaled => DOMAIN journal = {}
          /\ report["sidecar"] # None => ended = run.candidates
    /\ starts = 1 /\ report["sidecar"] \notin {None, Torn} /\ DOMAIN journal # {} =>
          ArmIsTheReport(ContractArm, report["sidecar"])

\* A step more leaves what is over as it was.
LEMMA OverStays ==
    ASSUME Kinds, Scored, NEW ct \in Due, NEW v, run # None, steps' = With(steps, ct, v),
           UNCHANGED <<run, ended>>
    PROVE  Scored'
<1>1. ct \notin DOMAIN steps
  BY DueIs
<1>2. DOMAIN steps' = DOMAIN steps \cup {ct} /\ \A x \in DOMAIN steps : steps'[x] = steps[x]
  <2>1. /\ DOMAIN With(steps, ct, v) = DOMAIN steps \cup {ct}
        /\ \A y \in DOMAIN steps : y # ct => With(steps, ct, v)[y] = steps[y]
    BY DEF With
  <2> QED
    BY <1>1, <2>1
<1>3. Swept' = Swept
  BY DEF Swept
<1> SUFFICES ASSUME NEW c \in ended
             PROVE  /\ \A t \in Swept : <<c, t>> \in DOMAIN steps'
                    /\ ~run.probe => Proven(c)' /\ Size[c] # None
  BY <1>3 DEF Scored
<1>4. \A t \in Swept : <<c, t>> \in DOMAIN steps
  BY DEF Scored
<1>5. SweptOver(c, run.private)' = SweptOver(c, run.private) /\ SweptOver(c, run.public)' = SweptOver(c, run.public)
  <2>1. /\ [t \in run.private |-> steps'[<<c, t>>]] = [t \in run.private |-> steps[<<c, t>>]]
        /\ [t \in run.public |-> steps'[<<c, t>>]] = [t \in run.public |-> steps[<<c, t>>]]
    BY <1>2, <1>4 DEF Swept
  <2> QED
    BY <2>1 DEF SweptOver
<1>6. Proven(c)' <=> Proven(c)
  BY <1>5, Zenon DEF Proven
<1> QED
  BY <1>2, <1>4, <1>6 DEF Scored

\* A step is added only to a sweep that is not over, and only under the contract.
LEMMA NextScored == Kinds /\ Scored /\ Posed /\ [BakeoffNext]_bakeoffVars => Scored' /\ Posed'
<1> SUFFICES ASSUME Kinds, Scored, Posed, [BakeoffNext]_bakeoffVars PROVE Scored' /\ Posed'
  OBVIOUS
<1>1. CASE Begin
  <2>1. DOMAIN steps' = {} /\ ended' = {}
    BY <1>1, BeginSays DEF Kinds, AtRest
  <2> QED
    BY <2>1 DEF Scored, Posed
<1>2. CASE Replay \/ Score
  <2>0. PICK ct \in Due : \E v :
            /\ steps' = With(steps, ct, v)
            /\ ct \notin DOMAIN run.done /\ v.prompt # None => v.prompt \in run.contract
    BY <1>2, StepAdds
  <2>1. PICK v :
            /\ steps' = With(steps, ct, v)
            /\ ct \notin DOMAIN run.done /\ v.prompt # None => v.prompt \in run.contract
    BY <2>0
  <2>2. run # None /\ UNCHANGED <<run, ended>>
    BY <1>2, StepAdds
  <2>3. Scored'
    BY <2>1, <2>2, OverStays
  <2>4. /\ DOMAIN With(steps, ct, v) = DOMAIN steps \cup {ct} /\ With(steps, ct, v)[ct] = v
        /\ \A y \in DOMAIN steps : y # ct => With(steps, ct, v)[y] = steps[y]
    BY DEF With
  <2>5. Posed'
    BY <2>1, <2>2, <2>4 DEF Posed
  <2> QED
    BY <2>3, <2>5
<1>3. CASE Dies
  BY <1>3 DEF Dies, Scored, Posed
<1>4. ASSUME UNCHANGED <<run, steps, ended>>
      PROVE  Scored' /\ Posed'
  BY <1>4 DEF Scored, Posed, Swept, Proven, SweptOver
<1>5. CASE CandidateEnds
  <2>1. PICK c \in InHand :
          /\ Remaining(c) = {}
          /\ IF run.probe \/ (Proven(c) /\ Size[c] # None)
             THEN ended' = ended \cup {c} /\ UNCHANGED <<run, steps, writing>>
             ELSE Dies
    BY <1>5 DEF CandidateEnds
  <2>2. CASE ended' = ended \cup {c} /\ UNCHANGED <<run, steps>> /\ (run.probe \/ (Proven(c) /\ Size[c] # None))
    <3>1. \A t \in Swept : <<c, t>> \in DOMAIN steps
      BY <2>1 DEF Remaining
    <3>2. Swept' = Swept /\ \A d : Proven(d)' <=> Proven(d)
      BY <2>2 DEF Swept, Proven, SweptOver
    <3>3. Scored'
      BY <2>2, <3>1, <3>2 DEF Scored
    <3> QED
      BY <2>2, <3>3 DEF Posed
  <2> QED
    BY <1>3, <2>1, <2>2
<1>6. CASE Publish
  BY <1>3, <1>4, <1>6 DEF Publish
<1>7. CASE RenderArm \/ PoolIsFetchedAgain \/ WeightsAreReplaced
  BY <1>4, <1>7 DEF RenderArm, PoolIsFetchedAgain, WeightsAreReplaced, memory
<1>8. CASE ContractChanged \/ ProbeEnds \/ ReportRefused \/ Kill
  BY <1>3, <1>8 DEF ContractChanged, ProbeEnds, ReportRefused, Kill
<1>9. CASE \E r \in {Fact[t].repo : t \in Tasks} : RepositoryIsLost(r)
  BY <1>4, <1>9 DEF RepositoryIsLost, memory
<1>10. CASE UNCHANGED bakeoffVars
  BY <1>4, <1>10 DEF bakeoffVars, memory
<1> QED
  BY <1>1, <1>2, <1>5, <1>6, <1>7, <1>8, <1>9, <1>10 DEF BakeoffNext

\* The counts of a report, and what a journal of the same steps gives: source by source the same.
LEMMA JournalCounts ==
    ASSUME Kinds, Scored, FirstRun, starts = 1, Reporting, ~MissingSource, DOMAIN journal # {}
    PROVE  /\ {ct[1] : ct \in DOMAIN journal} = ended
           /\ \A c \in ended, f \in Fields :
                 ArmTally(c)[f] = Tally(Verdicts(c, run.private))[f] + Tally(Verdicts(c, run.public))[f]
<1>1. run # None /\ ended = run.candidates
  BY DEF Reporting, AllSwept
<1>2. DOMAIN journal = DOMAIN steps /\ \A ct \in DOMAIN steps : journal[ct] = steps[ct]
  BY <1>1 DEF FirstRun
<1>3. DOMAIN steps = ended \X Swept
  <2>1. DOMAIN steps \subseteq ended \X Swept
    BY <1>1 DEF Kinds, OfTheRun
  <2>2. \A c \in ended, t \in Swept : <<c, t>> \in DOMAIN steps
    BY <1>1 DEF Scored
  <2> QED
    BY <2>1, <2>2
<1>4. PICK x : x \in Swept
  BY DEF MissingSource, Swept
<1>5. {ct[1] : ct \in DOMAIN journal} = ended
  <2>1. \A c \in ended : <<c, x>> \in DOMAIN journal /\ <<c, x>>[1] = c
    BY <1>2, <1>3, <1>4
  <2>2. \A ct \in DOMAIN journal : ct[1] \in ended
    BY <1>2, <1>3
  <2> QED
    BY <2>1, <2>2
<1>6. /\ run.private \subseteq PrivateTasks /\ run.public \subseteq PublicTasks /\ Swept \subseteq Tasks
      /\ run.private \cap run.public = {}
  BY <1>1, BakeoffAssumption DEF Kinds, OfTheRun, Swept, Tasks
<1>7. ASSUME NEW c \in ended
      PROVE  \A f \in Fields :
                ArmTally(c)[f] = Tally(Verdicts(c, run.private))[f] + Tally(Verdicts(c, run.public))[f]
  <2>1. StoredTasks(c) = Swept
    BY <1>2, <1>3, <1>6, <1>7 DEF StoredTasks
  <2> DEFINE stored == [t \in StoredTasks(c) |-> journal[<<c, t>>].verdict]
  <2>2. /\ DOMAIN Verdicts(c, run.private) = run.private /\ DOMAIN Verdicts(c, run.public) = run.public
        /\ DOMAIN stored = Swept
    BY <2>1 DEF Verdicts
  <2>3. /\ \A t \in run.private : stored[t] = Verdicts(c, run.private)[t]
        /\ \A t \in run.public : stored[t] = Verdicts(c, run.public)[t]
    BY <1>2, <1>3, <1>7, <2>1 DEF Verdicts, Swept
  <2>4. IsFiniteSet(run.private) /\ IsFiniteSet(run.public)
    BY <1>6, TasksAreFinite DEF Tasks
  <2>5. ArmTally(c) = Tally(stored)
    BY Zenon DEF ArmTally
  <2> HIDE DEF stored
  <2>6. \A f \in Fields : Tally(stored)[f] = Tally(Verdicts(c, run.private))[f] + Tally(Verdicts(c, run.public))[f]
    <3> DEFINE a == Verdicts(c, run.private)
               b == Verdicts(c, run.public)
    <3>1. /\ DOMAIN a = run.private /\ DOMAIN b = run.public /\ DOMAIN stored = run.private \cup run.public
          /\ \A t \in run.private : stored[t] = a[t]
          /\ \A t \in run.public : stored[t] = b[t]
      BY <2>2, <2>3 DEF Swept
    <3> HIDE DEF a, b
    <3>2. \A f \in Fields : Tally(stored)[f] = Tally(a)[f] + Tally(b)[f]
      <4>1. Joined(a, b, stored)
        BY <1>6, <2>4, <3>1 DEF Joined
      <4> QED
        BY <4>1, TallyAdds
    <3> QED
      BY <3>2 DEF a, b
  <2> QED
    BY <2>5, <2>6
<1> QED
  BY <1>5, <1>7

\* What a page and a sidecar say of the run, among the rest.
LEMMA DocumentSays ==
    ASSUME NEW file \in {"page", "sidecar"}
    PROVE  /\ DOMAIN Document(file).counts = ended
           /\ \A c \in ended : /\ Document(file).counts[c].private = Tally(Verdicts(c, run.private))
                               /\ Document(file).counts[c].public = Tally(Verdicts(c, run.public))
           /\ Document(file).selected = Selected(Document(file).counts)
           /\ Document(file).task_set.private = Cardinality(run.private)
           /\ Document(file).task_set.public = Cardinality(run.public)
           /\ Document(file).dev_subset = run.dev /\ Document(file).contract = run.contract
<1> DEFINE counts == [c \in ended |-> Counted(c)]
<1>1. /\ BuildReport.counts = counts /\ BuildReport.selected = Selected(counts)
      /\ BuildReport.task_set = [private |-> Cardinality(run.private), public |-> Cardinality(run.public)]
      /\ BuildReport.dev_subset = run.dev /\ BuildReport.contract = run.contract
      /\ {"counts", "selected", "task_set", "dev_subset", "contract"} \subseteq DOMAIN BuildReport
  BY DEF BuildReport
<1>2. \A f \in {"counts", "selected", "task_set", "dev_subset", "contract"} : Document(file)[f] = BuildReport[f]
  <2>1. CASE file = "page"
    <3>1. Document(file) = Rendered(BuildReport)
      BY <2>1 DEF Document
    <3>2. \A f \in {"counts", "selected", "task_set", "dev_subset", "contract"} :
             Rendered(BuildReport)[f] = BuildReport[f]
      BY <1>1 DEF Rendered
    <3> QED
      BY <3>1, <3>2
  <2>2. CASE file = "sidecar"
    BY <2>2 DEF Document
  <2> QED
    BY <2>1, <2>2
<1>3. \A c \in ended : /\ counts[c].private = Tally(Verdicts(c, run.private))
                       /\ counts[c].public = Tally(Verdicts(c, run.public))
  BY DEF Counted
<1> HIDE DEF counts
<1>4. DOMAIN counts = ended
  BY DEF counts
<1> QED
  BY <1>1, <1>2, <1>3, <1>4

\* A first run that ends leaves its journal, beside its sidecar or none a reader takes.
LEMMA DiesFirstRun ==
    ASSUME FirstRun, Dies, UNCHANGED <<journal, starts>>,
           report'["sidecar"] = Torn \/ report'["sidecar"] = report["sidecar"], starts # 0
    PROVE  FirstRun'
<1>1. run' = None
  BY DEF Dies
<1>2. CASE report'["sidecar"] = Torn
  BY <1>1, <1>2 DEF FirstRun
<1>3. CASE report'["sidecar"] = report["sidecar"]
  <2>1. ContractArm' = ContractArm
    BY <1>3 DEF ContractArm, ArmTally, StoredTasks
  <2> QED
    BY <1>1, <1>3, <2>1 DEF FirstRun, ArmIsTheReport
<1> QED
  BY <1>2, <1>3

\* While there was one run, its journal is what it holds, and its sidecar counts that journal.
LEMMA NextFirstRun == Kinds /\ Scored /\ FirstRun /\ [BakeoffNext]_bakeoffVars => FirstRun'
<1> SUFFICES ASSUME Kinds, Scored, FirstRun, [BakeoffNext]_bakeoffVars PROVE FirstRun'
  OBVIOUS
<1>0. starts \in Nat
  BY BakeoffAssumption DEF Kinds, BakeoffTypeOK
<1>a. ASSUME UNCHANGED <<journal, starts>>, report'["sidecar"] = report["sidecar"]
      PROVE  ArmIsTheReport(ContractArm, report["sidecar"])' <=> ArmIsTheReport(ContractArm, report["sidecar"])
  BY <1>a DEF ContractArm, ArmTally, StoredTasks, ArmIsTheReport
<1>1. CASE Begin
  <2>1. /\ run = None /\ starts' = starts + 1 /\ UNCHANGED <<journal, report, steps>>
        /\ run'.done = journal \/ DOMAIN run'.done = {}
        /\ DOMAIN steps = {}
    BY <1>1, BeginSays DEF Kinds, AtRest
  <2>2. CASE starts = 0
    BY <2>1, <2>2 DEF FirstRun
  <2>3. CASE starts # 0
    BY <1>0, <2>1, <2>3 DEF FirstRun
  <2> QED
    BY <2>2, <2>3
<1>2. CASE Replay \/ Score
  <2>0. PICK ct \in Due : \E v :
            /\ steps' = With(steps, ct, v)
            /\ \/ ct \in DOMAIN run.done /\ journal' = journal
               \/ ct \notin DOMAIN run.done /\ journal' = IF run.journaled THEN With(journal, ct, v) ELSE journal
    BY <1>2, StepAdds
  <2>1. PICK v :
            /\ steps' = With(steps, ct, v)
            /\ \/ ct \in DOMAIN run.done /\ journal' = journal
               \/ ct \notin DOMAIN run.done /\ journal' = IF run.journaled THEN With(journal, ct, v) ELSE journal
    BY <2>0
  <2>2. run # None /\ UNCHANGED <<report, run, ended, starts>>
    BY <1>2, StepAdds
  <2>3. ended # run.candidates
    BY <2>2, DueIs
  <2>4. CASE starts = 1
    <3>1. DOMAIN run.done = {} /\ report["sidecar"] = None
      BY <2>2, <2>3, <2>4 DEF FirstRun
    <3>2. CASE run.journaled
      <4>1. journal' = With(journal, ct, v)
        BY <2>1, <3>1, <3>2
      <4>2. DOMAIN journal = DOMAIN steps /\ \A x \in DOMAIN steps : journal[x] = steps[x]
        BY <2>2, <2>4, <3>2 DEF FirstRun
      <4>3. DOMAIN journal' = DOMAIN steps' /\ \A x \in DOMAIN steps' : journal'[x] = steps'[x]
        BY <2>1, <4>1, <4>2 DEF With
      <4> QED
        BY <2>2, <2>4, <3>1, <3>2, <4>3 DEF FirstRun
    <3>3. CASE ~run.journaled
      <4>1. journal' = journal
        BY <2>1, <3>1, <3>3
      <4> QED
        BY <2>2, <2>4, <3>1, <3>3, <4>1 DEF FirstRun
    <3> QED
      BY <3>2, <3>3
  <2>5. CASE starts # 1
    BY <2>2, <2>5 DEF FirstRun
  <2> QED
    BY <2>4, <2>5
<1>3. ASSUME Dies, UNCHANGED <<journal, starts>>, run # None,
             report'["sidecar"] = Torn \/ report'["sidecar"] = report["sidecar"]
      PROVE  FirstRun'
  <2>1. starts # 0
    BY <1>3 DEF FirstRun
  <2> QED
    BY <1>3, <2>1, DiesFirstRun
<1>4. ASSUME UNCHANGED <<journal, starts, run, steps, ended>>, report'["sidecar"] = report["sidecar"]
      PROVE  FirstRun'
  BY <1>a, <1>4 DEF FirstRun
<1>5. CASE CandidateEnds
  <2>1. PICK c \in InHand :
          \/ ended' = ended \cup {c} /\ UNCHANGED <<run, steps, writing>>
          \/ Dies
    BY <1>5 DEF CandidateEnds
  <2>2. run # None /\ UNCHANGED <<journal, report, starts>>
    BY <1>5 DEF CandidateEnds
  <2>3. CASE ended' = ended \cup {c} /\ UNCHANGED <<run, steps, writing>>
    <3>1. ended # run.candidates
      BY DEF InHand
    <3> QED
      BY <1>a, <2>2, <2>3, <3>1 DEF FirstRun
  <2> QED
    BY <1>3, <2>1, <2>2, <2>3
<1>6. CASE Publish
  <2>1. /\ run # None /\ ended = run.candidates /\ writing \in 0..2 /\ Reporting /\ ~MissingSource
        /\ report' = [report EXCEPT ![Files[writing + 1]] = Document(Files[writing + 1])]
        /\ UNCHANGED <<journal, starts>>
        /\ Dies \/ UNCHANGED <<run, steps, ended>>
    BY <1>6 DEF Publish, Reporting, AllSwept, Kinds, BakeoffTypeOK
  <2>2. CASE writing = 0 \/ writing = 2
    <3>1. report'["sidecar"] = report["sidecar"]
      BY <2>1, <2>2, FileNames
    <3> QED
      BY <1>3, <1>4, <2>1, <3>1
  <2>3. CASE writing = 1
    <3>1. report'["sidecar"] = Document("sidecar")
      BY <2>1, <2>3, FileNames DEF Kinds, Paths
    <3>2. ASSUME starts = 1, DOMAIN journal # {}
          PROVE  ArmIsTheReport(ContractArm, report["sidecar"])'
      <4>1. /\ {ct[1] : ct \in DOMAIN journal} = ended
            /\ \A c \in ended, f \in Fields :
                 ArmTally(c)[f] = Tally(Verdicts(c, run.private))[f] + Tally(Verdicts(c, run.public))[f]
        BY <2>1, <3>2, JournalCounts
      <4>2. ContractArm'.tallies = [c \in {ct[1] : ct \in DOMAIN journal} |-> ArmTally(c)]
        BY <2>1 DEF ContractArm, ArmTally, StoredTasks
      <4>3. /\ DOMAIN Document("sidecar").counts = ended
            /\ \A c \in ended : /\ Document("sidecar").counts[c].private = Tally(Verdicts(c, run.private))
                                /\ Document("sidecar").counts[c].public = Tally(Verdicts(c, run.public))
        BY DocumentSays
      <4> QED
        BY <3>1, <4>1, <4>2, <4>3 DEF ArmIsTheReport
    <3>3. starts # 0
      BY <2>1 DEF FirstRun
    <3>4. CASE Dies
      BY <2>1, <3>2, <3>3, <3>4 DEF FirstRun, Dies
    <3>5. CASE UNCHANGED <<run, steps, ended>>
      BY <2>1, <3>2, <3>3, <3>5 DEF FirstRun
    <3> QED
      BY <2>1, <3>4, <3>5
  <2> QED
    BY <2>1, <2>2, <2>3
<1>7. CASE ContractChanged
  BY <1>3, <1>7 DEF ContractChanged
<1>8. CASE ProbeEnds
  BY <1>3, <1>8 DEF ProbeEnds, AllSwept
<1>9. CASE ReportRefused
  BY <1>3, <1>9 DEF ReportRefused, Reporting, AllSwept
<1>10. CASE RenderArm
  BY <1>4, <1>10 DEF RenderArm, memory
<1>11. CASE Kill
  <2>1. run # None /\ Dies /\ UNCHANGED <<journal, starts>>
    BY <1>11 DEF Kill
  <2>2. report'["sidecar"] = Torn \/ report'["sidecar"] = report["sidecar"]
    <3>1. "sidecar" \in DOMAIN report
      BY DEF Kinds, Paths
    <3>2. \/ report' = report
          \/ \E f \in {Files[writing + 1]} : report' = [report EXCEPT ![f] = Torn]
      BY <1>11 DEF Kill
    <3> QED
      BY <3>1, <3>2
  <2> QED
    BY <1>3, <2>1, <2>2
<1>12. ASSUME NEW r, PoolIsFetchedAgain \/ WeightsAreReplaced \/ RepositoryIsLost(r)
       PROVE  FirstRun'
  BY <1>4, <1>12 DEF PoolIsFetchedAgain, WeightsAreReplaced, RepositoryIsLost, memory
<1>13. CASE UNCHANGED bakeoffVars
  BY <1>4, <1>13 DEF bakeoffVars, memory
<1> QED
  BY <1>1, <1>2, <1>5, <1>6, <1>7, <1>8, <1>9, <1>10, <1>11, <1>12, <1>13 DEF BakeoffNext

-----------------------------------------------------------------------------
(* The action properties. *)

\* The invariant the action properties rest on.
Grounds == Kinds /\ Scored /\ Posed /\ FirstRun

LEMMA GroundsHold == BakeoffSpec => []Grounds
<1>1. BakeoffInit => Scored /\ Posed
  BY DEF BakeoffInit, Scored, Posed
<1>2. BakeoffInit => FirstRun
  <2>1. DOMAIN Nothing = {}
    BY DEF Nothing
  <2>2. "sidecar" \in Paths
    BY DEF Paths
  <2> QED
    BY <2>1, <2>2 DEF BakeoffInit, FirstRun
<1>3. BakeoffInit => Grounds
  BY <1>1, <1>2, InitKinds DEF Grounds
<1>4. Grounds /\ [BakeoffNext]_bakeoffVars => Grounds'
  BY NextKinds, NextScored, NextFirstRun DEF Grounds
<1> QED
  BY <1>3, <1>4, PTL DEF BakeoffSpec

\* Nothing but the report doors writes their page, and nothing but a publication a page or a sidecar.
LEMMA WhoWrites ==
    ASSUME Kinds, [BakeoffNext]_bakeoffVars
    PROVE  /\ report'["arm"] # report["arm"] => RenderArm
           /\ \A f \in Written : /\ Publish /\ f \in {"page", "sidecar"}
                                 /\ report'[f] = Document(f)
<1>1. ASSUME UNCHANGED report
      PROVE  report'["arm"] = report["arm"] /\ Written = {}
  BY <1>1 DEF Written
<1>2. ASSUME NEW p \in {"page", "sidecar", "cost", "probe", "arm"}, NEW v, report' = [report EXCEPT ![p] = v]
      PROVE  \A q \in Paths : report'[q] = IF q = p THEN v ELSE report[q]
  BY <1>2 DEF Kinds
<1>3. writing \in 0..2 /\ Files[writing + 1] \in {"page", "sidecar", "cost"}
  BY FileNames DEF Kinds, BakeoffTypeOK
<1>4. CASE RenderArm
  <2>1. PICK v : report' = [report EXCEPT !["arm"] = v]
    BY <1>4 DEF RenderArm
  <2>2. \A q \in {"page", "sidecar"} : report'[q] = report[q]
    BY <1>2, <2>1 DEF Paths
  <2> QED
    BY <1>4, <2>2 DEF Written
<1>5. CASE Publish
  <2> DEFINE p == Files[writing + 1]
  <2>1. report' = [report EXCEPT ![p] = Document(p)]
    BY <1>5 DEF Publish
  <2> HIDE DEF p
  <2>2. \A q \in Paths : report'[q] = IF q = p THEN Document(p) ELSE report[q]
    BY <1>3, <2>1 DEF Kinds, Paths, p
  <2>3. p # "arm"
    BY <1>3 DEF p
  <2> QED
    BY <1>5, <2>2, <2>3 DEF Written, Paths
<1>6. CASE ProbeEnds
  <2>1. PICK v : report' = [report EXCEPT !["probe"] = v]
    BY <1>6 DEF ProbeEnds
  <2>2. \A q \in {"page", "sidecar", "arm"} : report'[q] = report[q]
    BY <1>2, <2>1 DEF Paths
  <2> QED
    BY <2>2 DEF Written
<1>7. CASE Kill
  <2> DEFINE p == Files[writing + 1]
  <2>1. report' = report \/ report' = [report EXCEPT ![p] = Torn]
    BY <1>7 DEF Kill
  <2> HIDE DEF p
  <2>2. CASE report' = [report EXCEPT ![p] = Torn]
    <3>1. \A q \in Paths : report'[q] = IF q = p THEN Torn ELSE report[q]
      BY <1>3, <2>2 DEF Kinds, Paths, p
    <3>2. p # "arm"
      BY <1>3 DEF p
    <3> QED
      BY <3>1, <3>2 DEF Written, Paths
  <2> QED
    BY <1>1, <2>1, <2>2
<1>8. CASE Begin
  BY <1>1, <1>8, BeginSays
<1>9. CASE Replay \/ Score
  BY <1>1, <1>9, StepAdds
<1>10. CASE ContractChanged \/ CandidateEnds \/ ReportRefused \/ PoolIsFetchedAgain \/ WeightsAreReplaced
  BY <1>1, <1>10 DEF ContractChanged, CandidateEnds, ReportRefused, PoolIsFetchedAgain, WeightsAreReplaced
<1>11. CASE \E r \in {Fact[t].repo : t \in Tasks} : RepositoryIsLost(r)
  BY <1>1, <1>11 DEF RepositoryIsLost
<1>12. CASE UNCHANGED bakeoffVars
  BY <1>1, <1>12 DEF bakeoffVars
<1> QED
  BY <1>4, <1>5, <1>6, <1>7, <1>8, <1>9, <1>10, <1>11, <1>12 DEF BakeoffNext

\* The report doors make their page of a journal, and while there was one run, beside its sidecar.
LEMMA ArmSays ==
    ASSUME Grounds, RenderArm, starts = 1
    PROVE  ArmIsTheReport(report'["arm"].arm, report["sidecar"])
<1>1. PICK day : \E page \in Pages(ContractArm, day) : report' = [report EXCEPT !["arm"] = page]
  BY DEF RenderArm
<1>a. PICK page \in Pages(ContractArm, day) : report' = [report EXCEPT !["arm"] = page]
  BY <1>1
<1>2. page.arm = ContractArm
  BY <1>a DEF Pages, Comparison, StratumReport, LargerBaseReport
<1>3. report'["arm"].arm = ContractArm
  BY <1>a, <1>2 DEF Grounds, Kinds, Paths
<1>4. report["sidecar"] \notin {None, Torn} /\ DOMAIN journal # {}
  BY DEF RenderArm, ArmRefused, ReadContract
<1> QED
  BY <1>3, <1>4 DEF Grounds, FirstRun

\* A document of the run counts each of its candidates over all of its tasks and over no other.
LEMMA CountsSay ==
    ASSUME Grounds, Publish, NEW f \in {"page", "sidecar"}
    PROVE  /\ DOMAIN Document(f).counts = run.candidates
           /\ \A c \in DOMAIN Document(f).counts :
                 /\ Document(f).counts[c].private.denominator = Document(f).task_set.private
                 /\ Document(f).counts[c].public.denominator = Document(f).task_set.public
                 /\ \A t \in Tasks \cap Document(f).dev_subset : <<c, t>> \notin DOMAIN steps
           /\ \A ct \in DOMAIN steps \ DOMAIN run.done :
                 steps[ct].prompt # None => steps[ct].prompt \in Document(f).contract
<1>1. run # None /\ ended = run.candidates /\ {ct[2] : ct \in DOMAIN steps} \cap run.dev = {}
  BY DEF Publish, Reporting, AllSwept, ScoredDevSubset
<1>2. \A c, corpus : Tally(Verdicts(c, corpus)).denominator = Cardinality(corpus)
  <2>1. \A c, corpus : Tally(Verdicts(c, corpus)).denominator = Cardinality(DOMAIN Verdicts(c, corpus))
    BY TallyIs
  <2>2. \A c, corpus : DOMAIN Verdicts(c, corpus) = corpus
    BY DEF Verdicts
  <2> QED
    BY <2>1, <2>2
<1>3. /\ DOMAIN Document(f).counts = ended
      /\ \A c \in ended : /\ Document(f).counts[c].private = Tally(Verdicts(c, run.private))
                          /\ Document(f).counts[c].public = Tally(Verdicts(c, run.public))
      /\ Document(f).task_set.private = Cardinality(run.private)
      /\ Document(f).task_set.public = Cardinality(run.public)
      /\ Document(f).dev_subset = run.dev /\ Document(f).contract = run.contract
  BY DocumentSays
<1>4. \A c, t : <<c, t>> \in DOMAIN steps => t \notin run.dev
  <2> TAKE c, t
  <2>1. <<c, t>>[2] = t
    OBVIOUS
  <2> QED
    BY <1>1, <2>1
<1> QED
  BY <1>1, <1>2, <1>3, <1>4 DEF Grounds, Posed

\* Of any bake-off, with any kills, replayed journals, lost donors and pools fetched again: the
\* published counts are of all the tasks the contract names, and of no task of the dev subset, what
\* the process asked is what the contract poses, and the page of the first run's journal gives the
\* counts of its report again (run.py:450-494, report.py:488, comparison.py:843-853).
THEOREM CountsAreOfTheContractHolds == BakeoffSpec => CountsAreOfTheContract
<1> DEFINE A == /\ report'["arm"] # report["arm"] /\ starts = 1
                      => ArmIsTheReport(report'["arm"].arm, report["sidecar"])
                /\ \A f \in Written :
                      LET r == report'[f]
                      IN  /\ DOMAIN r.counts = run.candidates
                          /\ \A c \in DOMAIN r.counts :
                                /\ r.counts[c].private.denominator = r.task_set.private
                                /\ r.counts[c].public.denominator = r.task_set.public
                                /\ \A t \in Tasks \cap r.dev_subset : <<c, t>> \notin DOMAIN steps
                          /\ \A ct \in DOMAIN steps \ DOMAIN run.done :
                                steps[ct].prompt # None => steps[ct].prompt \in r.contract
<1>1. ASSUME Grounds, [BakeoffNext]_bakeoffVars
      PROVE  A
  <2>1. Kinds
    BY <1>1 DEF Grounds
  <2>2. report'["arm"] # report["arm"] /\ starts = 1 => ArmIsTheReport(report'["arm"].arm, report["sidecar"])
    BY <1>1, <2>1, WhoWrites, ArmSays
  <2>3. \A f \in Written : Publish /\ f \in {"page", "sidecar"} /\ report'[f] = Document(f)
    BY <1>1, <2>1, WhoWrites
  <2> QED
    BY <1>1, <2>2, <2>3, CountsSay
<1>2. Grounds /\ [BakeoffNext]_bakeoffVars => [A]_bakeoffVars
  BY <1>1
<1>3. []Grounds /\ [][BakeoffNext]_bakeoffVars => [][A]_bakeoffVars
  BY <1>2, PTL
<1> QED
  BY <1>3, GroundsHold, PTL DEF BakeoffSpec, CountsAreOfTheContract

\* Whoever is selected of a run stands before all the others.
LEMMA SelectionSays ==
    ASSUME Grounds, Publish, NEW f \in {"page", "sidecar"}
    PROVE  LET counts    == Document(f).counts
               solved(c) == counts[c].private.solved
           IN  /\ \A s \in Selected(counts), c \in DOMAIN counts :
                     /\ solved(s) > 0 /\ solved(s) >= solved(c)
                     /\ solved(c) = solved(s) => Size[s] <= Size[c]
               /\ Selected(counts) = {} => \A c \in DOMAIN counts : solved(c) = 0
<1> DEFINE counts == Document(f).counts
           solved(c) == counts[c].private.solved
           most == Cardinality(run.private)
<1>1. run # None /\ ended = run.candidates /\ ~run.probe
  BY DEF Publish, Reporting, AllSwept
<1>2. most \in Nat /\ IsFiniteSet(run.private)
  BY <1>1, TasksAreFinite DEF Grounds, Kinds, OfTheRun, Tasks
<1>3. DOMAIN counts = ended /\ \A c \in ended : counts[c].private = Tally(Verdicts(c, run.private))
  BY DocumentSays
<1>4. DOMAIN counts \subseteq Contenders
  BY <1>1, <1>3 DEF Grounds, Kinds, OfTheRun
<1>5. ASSUME NEW c \in DOMAIN counts
      PROVE  solved(c) \in 0..most
  <2> DEFINE S == {t \in run.private : Verdicts(c, run.private)[t].outcome = "SOLVED"}
  <2>1. DOMAIN Verdicts(c, run.private) = run.private
    BY DEF Verdicts
  <2>2. solved(c) = Cardinality(S)
    BY <1>3, <2>1, TallyIs
  <2>3. IsFiniteSet(S) /\ Cardinality(S) <= most /\ Cardinality(S) \in Nat
    <3>1. S \subseteq run.private
      OBVIOUS
    <3> QED
      BY <1>2, <3>1, FS_Subset, FS_CardinalityType
  <2> QED
    BY <1>2, <2>2, <2>3
<1>6. \A c \in DOMAIN counts : Size[c] \in Nat
  <2>1. \A c \in DOMAIN counts : Size[c] # None
    BY <1>1, <1>3 DEF Grounds, Scored
  <2> QED
    BY <1>4, <2>1, BakeoffAssumption
<1> HIDE DEF counts, most
<1>7. \A c \in DOMAIN counts : solved(c) \in Nat
  BY <1>2, <1>5
<1>8. \A s \in Leads(counts), c \in DOMAIN counts :
         s \in DOMAIN counts /\ (s = c \/ Before(counts, s, c))
  BY DEF Leads, Ranking
<1>9. \A s \in Leads(counts), c \in DOMAIN counts :
         solved(s) >= solved(c) /\ (solved(c) = solved(s) => Size[s] <= Size[c])
  <2> TAKE s \in Leads(counts), c \in DOMAIN counts
  <2>1. /\ s \in DOMAIN counts /\ solved(s) \in Nat /\ solved(c) \in Nat
        /\ Size[s] \in Nat /\ Size[c] \in Nat
    BY <1>6, <1>7, <1>8
  <2>2. CASE s = c
    BY <2>1, <2>2
  <2>3. CASE Before(counts, s, c)
    BY <2>1, <2>3 DEF Before
  <2> QED
    BY <1>8, <2>2, <2>3
<1>10. CASE \A c \in DOMAIN counts : solved(c) = 0
  <2>1. Selected(counts) = {}
    BY <1>10 DEF Selected
  <2> QED
    BY <1>10, <2>1 DEF counts
<1>11. CASE ~ \A c \in DOMAIN counts : solved(c) = 0
  <2>1. Selected(counts) = Leads(counts)
    BY <1>11 DEF Selected
  <2>2. Leads(counts) # {}
    <3>1. \A c \in DOMAIN counts : counts[c].private.solved \in 0..most /\ Size[c] \in Nat
      BY <1>5, <1>6
    <3>2. DOMAIN counts # {}
      BY <1>11
    <3> QED
      BY <1>2, <1>4, <3>1, <3>2, SomebodyLeads
  <2>3. \A s \in Leads(counts) : solved(s) > 0
    <3> TAKE s \in Leads(counts)
    <3>1. PICK c \in DOMAIN counts : solved(c) # 0
      BY <1>11
    <3>2. solved(c) \in Nat /\ solved(s) \in Nat /\ solved(s) >= solved(c)
      BY <1>7, <1>8, <1>9, <3>1
    <3> QED
      BY <3>1, <3>2
  <2> QED
    BY <1>9, <2>1, <2>2, <2>3 DEF counts
<1> QED
  BY <1>10, <1>11

\* Of any bake-off: a base is selected on controls that worked, on each source and for every
\* candidate; nobody solved more and nobody smaller as much, and where anybody solved a task somebody
\* is selected (sweep.py:160-183, selection.py:123-165).
THEOREM SelectionIsEarnedHolds == BakeoffSpec => SelectionIsEarned
<1> DEFINE Earned(r) ==
             LET solved(c) == r.counts[c].private.solved
                 controls(c, corpus) == {steps[<<c, t>>].control : t \in corpus}
             IN  /\ \A c \in DOMAIN r.counts, corpus \in {run.private, run.public} :
                       "INTACT" \in controls(c, corpus) /\ "BROKEN" \notin controls(c, corpus)
                 /\ \A s \in r.selected, c \in DOMAIN r.counts :
                       /\ solved(s) > 0 /\ solved(s) >= solved(c)
                       /\ solved(c) = solved(s) => Size[s] <= Size[c]
                 /\ r.selected = {} => \A c \in DOMAIN r.counts : solved(c) = 0
           A == \A f \in Written : Earned(report'[f])
<1>1. ASSUME Grounds, [BakeoffNext]_bakeoffVars
      PROVE  A
  <2>1. \A f \in Written : Publish /\ f \in {"page", "sidecar"} /\ report'[f] = Document(f)
    BY <1>1, WhoWrites DEF Grounds
  <2>2. ASSUME NEW f \in Written, NEW c \in DOMAIN Document(f).counts, NEW corpus \in {run.private, run.public}
        PROVE  LET controls == {steps[<<c, t>>].control : t \in corpus}
               IN  "INTACT" \in controls /\ "BROKEN" \notin controls
    <3>1. run # None /\ ~run.probe
      BY <2>1, <2>2 DEF Publish, Reporting, AllSwept
    <3>2. c \in ended
      BY <2>1, <2>2, DocumentSays
    <3>3. Rankable(SweptOver(c, corpus))
      BY <1>1, <2>2, <3>1, <3>2 DEF Grounds, Scored, Proven
    <3> QED
      BY <3>3 DEF Rankable, SweptOver
  <2>3. \A f \in Written : Document(f).selected = Selected(Document(f).counts)
    BY <2>1, DocumentSays
  <2>4. ASSUME NEW f \in Written
        PROVE  LET counts    == Document(f).counts
                   solved(c) == counts[c].private.solved
               IN  /\ \A s \in Selected(counts), c \in DOMAIN counts :
                         /\ solved(s) > 0 /\ solved(s) >= solved(c)
                         /\ solved(c) = solved(s) => Size[s] <= Size[c]
                   /\ Selected(counts) = {} => \A c \in DOMAIN counts : solved(c) = 0
    BY <1>1, <2>1, <2>4, SelectionSays
  <2>5. SUFFICES ASSUME NEW f \in Written PROVE Earned(Document(f))
    <3> HIDE DEF Earned
    <3> QED
      BY <2>1
  <2> DEFINE r == Document(f)
  <2>6. \A c \in DOMAIN r.counts, corpus \in {run.private, run.public} :
           LET controls == {steps[<<c, t>>].control : t \in corpus}
           IN  "INTACT" \in controls /\ "BROKEN" \notin controls
    BY <2>2
  <2>7. r.selected = Selected(r.counts)
    BY <2>3
  <2>8. /\ \A s \in Selected(r.counts), c \in DOMAIN r.counts :
              /\ r.counts[s].private.solved > 0 /\ r.counts[s].private.solved >= r.counts[c].private.solved
              /\ r.counts[c].private.solved = r.counts[s].private.solved => Size[s] <= Size[c]
        /\ Selected(r.counts) = {} => \A c \in DOMAIN r.counts : r.counts[c].private.solved = 0
    BY <2>4
  <2> HIDE DEF r
  <2>9. /\ \A s \in r.selected, c \in DOMAIN r.counts :
              /\ r.counts[s].private.solved > 0 /\ r.counts[s].private.solved >= r.counts[c].private.solved
              /\ r.counts[c].private.solved = r.counts[s].private.solved => Size[s] <= Size[c]
        /\ r.selected = {} => \A c \in DOMAIN r.counts : r.counts[c].private.solved = 0
    BY <2>7, <2>8
  <2> QED
    BY <2>6, <2>9 DEF r
<1>2. Grounds /\ [BakeoffNext]_bakeoffVars => [A]_bakeoffVars
  BY <1>1
<1>3. []Grounds /\ [][BakeoffNext]_bakeoffVars => [][A]_bakeoffVars
  BY <1>2, PTL
<1> QED
  BY <1>3, GroundsHold, PTL DEF BakeoffSpec, SelectionIsEarned
=============================================================================
