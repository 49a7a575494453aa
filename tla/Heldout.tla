------------------------------- MODULE Heldout -------------------------------
(***************************************************************************)
(* The held-out split (loop/heldout.py): the rule that draws it, the       *)
(* document that records it and what reads that document: the night        *)
(* (`exclude_heldout`) and the leakage check (loop/check_leakage.py).      *)
(* A task id is a label and the commit the task was mined from: a re-mint  *)
(* changes the label and keeps the commit.                                 *)
(***************************************************************************)
EXTENDS Naturals, FiniteSets

CONSTANTS
    R,              \* the corpus roots, and the labels a re-mint names them by: 1 .. R
    C,              \* the mined commits: 1 .. C
    Size,           \* the difficulty of each commit's patch (`difficulty_key`)
    Fits,           \* the commits whose oracle fits the sealed budget (`scorable`)
    HashOrder,      \* sha256(seed, id): the order ids are drawn in
    HELDOUT_BANDS, MIN_HELDOUT, MIN_PER_BAND

Roots   == 1 .. R
Commits == 1 .. C
OldLabel == 0
Ids     == (Roots \cup {OldLabel}) \X Commits

ASSUME HeldoutAssumption ==
    /\ R \in Nat \ {0} /\ C \in Nat \ {0}
    /\ Size \in [Commits -> Nat]
    /\ Fits \subseteq Commits
    /\ HashOrder \in [Ids -> Nat]
    /\ \A i, j \in Ids : HashOrder[i] = HashOrder[j] => i = j
    /\ {HELDOUT_BANDS, MIN_HELDOUT, MIN_PER_BAND} \subseteq Nat \ {0}

Bands == 0 .. HELDOUT_BANDS - 1

\* Mutant of Identity: the id as it is spelled.
IdentitySpelled(id) == id

\* `_identity`: the trailing sha12.
Identity(id) == id[2]

NameBefore(i, j) == i[1] < j[1] \/ (i[1] = j[1] /\ i[2] < j[2])

-----------------------------------------------------------------------------
(* The rule. *)

\* By difficulty, and by name where that ties.
Easier(i, j) == \/ Size[i[2]] < Size[j[2]]
                \/ Size[i[2]] = Size[j[2]] /\ NameBefore(i, j)

\* Where a band begins, in the order of difficulty: as even a cut as there is, the larger
\* bands first.
BandStart(band, n) ==
    LET extra == n % HELDOUT_BANDS
    IN  band * (n \div HELDOUT_BANDS) + IF band < extra THEN band ELSE extra

BandOf(id, measured) ==
    LET index == Cardinality({o \in measured : Easier(o, id)})
        n     == Cardinality(measured)
    IN  CHOOSE b \in Bands : BandStart(b, n) <= index /\ index < BandStart(b + 1, n)

\* `_PER_BAND_TAKE`.
PerBand ==
    LET even == (MIN_HELDOUT + HELDOUT_BANDS - 1) \div HELDOUT_BANDS
    IN  IF even > MIN_PER_BAND THEN even ELSE MIN_PER_BAND

SelectBand(ids) ==
    {i \in ids : Cardinality({o \in ids : HashOrder[o] < HashOrder[i]}) < PerBand}

-----------------------------------------------------------------------------
(* The document. *)

InBand(document, band) == {i \in document.measured : document.band[i] = band}

\* `compose_document` before it refuses anything: what the stratum measured is banded, what
\* fits the budget is drawn from, band by band.
Drawn(ids, stratum) ==
    LET measured == ids \cap stratum
        band     == [i \in measured |-> BandOf(i, measured)]
        excluded == {i \in measured : i[2] \notin Fits}
    IN  [corpus     |-> ids,
         measured   |-> measured,
         refused    |-> ids \ measured,
         band       |-> band,
         excluded   |-> excluded,
         membership |-> UNION {SelectBand({i \in measured \ excluded : band[i] = b}) : b \in Bands}]

\* `_refuse_unmet_floors`.
FloorsMet(document) ==
    /\ Cardinality(document.membership) >= MIN_HELDOUT
    /\ \A b \in Bands : Cardinality(document.membership \cap InBand(document, b)) >= MIN_PER_BAND

\* Mutant of Composable: the writer does not look at the floors.
ComposableUnfloored(document) ==
    document.membership # {} /\ document.membership # document.corpus

\* Neither empty nor everything, and no floor unmet (EmptyHeldout).
Composable(document) ==
    /\ document.membership # {}
    /\ document.membership # document.corpus
    /\ FloorsMet(document)

\* `read_document`, on a file that parses: its own checks, none of them taken over from the
\* writer.
Readable(document) ==
    /\ document.membership \subseteq document.corpus
    /\ document.membership \cap document.excluded = {}
    /\ document.measured \cup document.refused \cup document.excluded \subseteq document.corpus
    /\ document.measured \cap document.refused = {}
    /\ document.excluded \cap document.refused = {}
    /\ document.corpus \subseteq document.measured \cup document.refused
    /\ DOMAIN document.band = document.measured
    /\ document.membership \subseteq document.measured
    /\ document.membership # {} /\ document.membership # document.corpus
    /\ FloorsMet(document)

-----------------------------------------------------------------------------
(* Its readers. *)

\* Mutant of Resolves: an id that matches nothing is passed over.
ResolvesAnyway(membership, loaded) == TRUE

\* `exclude_heldout` refuses a membership with an id no loaded task has (UnknownHeldoutId).
Resolves(membership, loaded) == membership \subseteq loaded

\* `_leak_of`: the trained ids that share an identity with a held-out one.
Leaked(trained, membership) ==
    {t \in trained : \E m \in membership : Identity(t) = Identity(m)}
==============================================================================
