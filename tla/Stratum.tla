------------------------------ MODULE Stratum -------------------------------
(***************************************************************************)
(* The easier stratum (bakeoff/stratum.py): how hard a task is by the      *)
(* shape of its own fix, the band that selects by it, the document that    *)
(* pins a selection before any rollout, and what a run takes from such a   *)
(* document.  Operators only.  A patch is the sequence of its lines, each  *)
(* of them no more than the prefix it is told by.  A digest is what it is  *)
(* computed from.                                                          *)
(***************************************************************************)
EXTENDS Oracle

CONSTANTS
    BAND_MAX_NON_TEST_FILES, BAND_MAX_HUNKS, BAND_MAX_CHANGED_LINES,
    STRATUM_SCHEMA

BAND == [files |-> BAND_MAX_NON_TEST_FILES, hunks |-> BAND_MAX_HUNKS, lines |-> BAND_MAX_CHANGED_LINES]

\* One walk, by the prefix: what a binary literal holds is counted by nothing, and a line that looks
\* like a file's header is one, wherever it stands.
Walked(counts, line) ==
    CASE line = "diff --git"       -> [counts EXCEPT !.payload = FALSE]
      [] line = "GIT binary patch" -> [counts EXCEPT !.payload = TRUE]
      [] line = "@@" /\ ~counts.payload -> [counts EXCEPT !.hunks = @ + 1]
      [] line = "+"  /\ ~counts.payload -> [counts EXCEPT !.added = @ + 1]
      [] line = "-"  /\ ~counts.payload -> [counts EXCEPT !.deleted = @ + 1]
      [] OTHER -> counts
MeasurePatch(diff) ==
    FoldLeft(Walked, [hunks |-> 0, added |-> 0, deleted |-> 0, payload |-> FALSE], diff)

\* A task is measured on the fix of its donor's own commit, or it is refused: one that was not
\* mined, whose fix shows no source file, whose donor cannot be read, or whose patch is empty.
DifficultyOf(task, repos) ==
    LET paths == IF task.mined THEN FromDonor(task, repos) ELSE None
        shape == MeasurePatch(task.diff)
    IN  IF paths = None \/ task.diff = <<>> THEN None
        ELSE [files |-> Cardinality(paths), hunks |-> shape.hunks, lines |-> shape.added + shape.deleted]

InBand(band, difficulty) ==
    /\ difficulty.files = band.files
    /\ difficulty.hunks <= band.hunks
    /\ difficulty.lines <= band.lines

-----------------------------------------------------------------------------
(* The document. *)

DigestedFields == {"schema", "rule_digest", "band", "corpus", "difficulty", "refusals", "membership"}
KnownFields    == DigestedFields \cup {"document_digest", "donor_heads"}

RuleDigest(band) == band
DocumentDigestOf(document) == [f \in DigestedFields |-> document[f]]
Sealing(document) ==
    [f \in DOMAIN document \cup {"document_digest"} |->
        IF f = "document_digest" THEN DocumentDigestOf(document) ELSE document[f]]

\* No selection, or a selection of everything, is no stratum.
Degenerate(membership, ids) == membership = {} \/ membership = ids

\* What the rule says of a corpus with the donors that can be read: the whole of it, measured or
\* refused by name, and None where that is no stratum; its members stand in one order.
ComposeDocument(band, ids, fact, repos) ==
    LET difficulty == [t \in Range(ids) |-> DifficultyOf(fact[t], repos)]
        measured   == {t \in Range(ids) : difficulty[t] # None}
        membership == {t \in measured : InBand(band, difficulty[t])}
    IN  IF ids = <<>> \/ ~IsInjective(ids) \/ Degenerate(membership, Range(ids)) THEN None
        ELSE Sealing([schema      |-> STRATUM_SCHEMA,
                      rule_digest |-> RuleDigest(band),
                      band        |-> band,
                      corpus      |-> Range(ids),
                      difficulty  |-> [t \in measured |-> difficulty[t]],
                      refusals    |-> Range(ids) \ measured,
                      membership  |-> SetToSeq(membership)])

Recognised(document) ==
    /\ document.schema = STRATUM_SCHEMA /\ DOMAIN document \subseteq KnownFields
    /\ document.rule_digest = RuleDigest(BAND)
    /\ DigestedFields \cup {"document_digest"} \subseteq DOMAIN document

\* The document against itself: every id is of its corpus, everything of its corpus measured or
\* refused and not both, every member measured and named once.
Coherent(document) ==
    LET ids      == document.corpus
        members  == Range(document.membership)
        measured == DOMAIN document.difficulty
    IN  /\ members \subseteq ids /\ measured \cup document.refusals = ids
        /\ measured \cap document.refusals = {}
        /\ IsInjective(document.membership) /\ members \subseteq measured
        /\ ~Degenerate(members, ids)

\* A document edited after it was written no longer matches its digest.
Unedited(document) == document.document_digest = DocumentDigestOf(document)

\* The members, or None for a document no run takes anything from.  It is consumed, never
\* recomputed.
\* Mutant of ReadDocument: the digest is not compared.
ReadUnsealed(document) ==
    IF Recognised(document) /\ Coherent(document) THEN Range(document.membership) ELSE None
ReadDocument(document) ==
    IF Recognised(document) /\ Coherent(document) /\ Unedited(document)
    THEN Range(document.membership) ELSE None

\* The run restricted to the members, each of which must be a task it loaded.
IncludeStratum(members, tasks) == IF members \subseteq tasks THEN members ELSE None
=============================================================================
