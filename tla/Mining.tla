------------------------------- MODULE Mining -------------------------------
(***************************************************************************)
(* The miner and the night that grows its own corpus with it: tasks/mine.py*)
(* (select, mine, _mint) with the steps it composes (tasks/held.py,        *)
(* environment.py, derive.py, liveness.py, ledger.py), loop/remine.py      *)
(* (one mint per donor, under one skip set) and the top of                 *)
(* loop/night.py: run_night, which loads what was minted and excludes the  *)
(* held-out members.  Donors grow between nights and may share commits; a  *)
(* process may be killed at any step, a write be cut short, a tool fail.   *)
(* `whetstone mine` is the same mint with one donor, nothing to skip and a *)
(* scratch directory of its own.                                           *)
(***************************************************************************)
EXTENDS Candidates

CONSTANTS
    None, Torn,     \* what a path holds: no file; a file whose write was cut short
    Commits,        \* a sha, of which an id carries the first twelve digits
    Tests,
    Nature,         \* a commit as git shows it, its parent's project, and what its tests do
    Labels,         \* one per donor, in the order of the command
    Base,           \* the ids of `--tasks`
    Offered,        \* the commits each donor has when the first night begins
    Limit,          \* `--remine-limit`
    MaxNights,      \* bound: nights begun over one `--remine-out`
    MaxKills,       \* bound: nights killed, or ended by an exception nobody catches
    MaxCommits      \* bound: commits donors gain

Ids      == [label : {Labels[d] : d \in DOMAIN Labels} \cup {b.label : b \in Base}, sha : Commits]
Donors   == DOMAIN Labels
Outcomes == {"passed", "failed"}
\* A test turns green with the commit, or red, stays either, or differs from run to run.
Kinds    == {"turns", "breaks", "green", "red", "flaky"}
\* A manifest is what it declares and when it was minted; a digest is injective.
Manifests == [fail_to_pass : SUBSET Tests, pass_to_pass : SUBSET Tests, at : 1..MaxNights]

ASSUME MiningAssumption ==
    /\ None # Torn /\ {None, Torn} \cap (Manifests \cup [Ids -> Manifests \cup {None}]) = {}
    /\ Labels \in Seq(STRING) /\ IsFiniteSet(Commits)
    /\ \A c \in Commits : Nature[c].tests \in [Tests -> Kinds]
    /\ \A b \in Base : b.label \in STRING /\ b.sha \in Commits /\ DOMAIN b = {"label", "sha"}
    /\ Offered \in [Donors -> SUBSET Commits]
    /\ {Limit, MaxNights, MaxKills, MaxCommits} \subseteq Nat /\ Limit > 0

VARIABLES
    \* on disk
    out,            \* `--remine-out`: the manifest of each id
    evidence,       \* the ledger beside it: the manifest hashed for each id, or the file's state
    scratch,        \* ids whose checkout is in the operator's workspace
    history,        \* the commits each donor offers
    membership,     \* the held-out document, over `--tasks`
    \* the night's process
    pc,
    donor,          \* the donor being mined
    queue,          \* its candidates still to attempt, the one in hand first
    staged,         \* the manifest in scratch, not yet proved
    opened,         \* the ledger being rewritten: what the open file will hold
    minted,         \* ids this donor's mint copied into the corpus
    accumulated,    \* the skip set
    pairs,          \* the delta the night's ledger will record
    drawn,          \* the private tasks the night draws
    nights, left

disk == <<out, evidence, scratch>>
mint == <<queue, staged, opened, minted>>
vars == <<disk, history, membership, pc, donor, mint, accumulated, pairs, drawn, nights, left>>

Shas(ids) == {i.sha : i \in ids}
Minted    == {i \in Ids : out[i] # None}

Init ==
    /\ out = [i \in Ids |-> None] /\ evidence = None /\ scratch = {}
    /\ history = Offered
    /\ membership \in SUBSET Base
    /\ pc = "down" /\ donor = 1 /\ queue = <<>> /\ staged = None /\ opened = None
    /\ minted = {} /\ accumulated = {} /\ pairs = {} /\ drawn = {}
    /\ nights = 0 /\ left = [kills |-> MaxKills, commits |-> MaxCommits]

\* What the gates that run nothing say of each commit.
Candidates == {c \in Commits : Candidate(Nature[c].commit)}
Holdable   == {c \in Commits : ~OverDeclared(Nature[c].commit)}
Lockable   == {c \in Commits : Captured(Nature[c].project)}
Held       == [c \in Commits |-> HeldPaths(Nature[c].commit)]
Roots      == [c \in Commits |-> ImportRoots(Nature[c].project)]
Reached    == {c \in Commits : Reaches(Nature[c].project)}

-----------------------------------------------------------------------------
(* The tests of one commit, and what is made of them. *)

Shows(kind, patched) ==
    CASE kind = "flaky"                 -> Outcomes
      [] kind \in {"turns", "breaks"}   -> {IF patched = (kind = "turns") THEN "passed" ELSE "failed"}
      [] kind = "green"                 -> {"passed"}
      [] kind = "red"                   -> {"failed"}
\* A test the import roots leave to another copy of its code never sees the patch, and fails where
\* there is none.
Shown(c, t, patched) ==
    IF c \in Reached THEN Shows(Nature[c].tests[t], patched)
    ELSE IF Nature[c].project.copy = "none" THEN {"failed"}
    ELSE Shows(Nature[c].tests[t], Nature[c].project.copy = "new")
Runs(c, patched) ==
    {r \in [Tests -> Outcomes] : \A t \in Tests : r[t] \in Shown(c, t, patched)}

Flipped(before, after, unsteady, from) ==
    {t \in Tests : after[t] = "passed" /\ before[t] = from /\ t \notin unsteady}

\* Mutant of Derived: the two lists change places.
DerivedSwapped(before, after, repeat) ==
    LET unsteady == {t \in Tests : after[t] # repeat[t]}
    IN  [fail_to_pass |-> Flipped(before, after, unsteady, "passed"),
         pass_to_pass |-> Flipped(before, after, unsteady, "failed"),
         at           |-> nights]

\* Mutant of Derived: what is green under the patch must go green, red before it or not.
DerivedGreen(before, after, repeat) ==
    LET unsteady == {t \in Tests : after[t] # repeat[t]}
    IN  [fail_to_pass |-> {t \in Tests \ unsteady : after[t] = "passed"},
         pass_to_pass |-> {},
         at           |-> nights]

\* An id whose two runs under the patch disagree is discarded, not declared.
Derived(before, after, repeat) ==
    LET unsteady == {t \in Tests : after[t] # repeat[t]}
    IN  [fail_to_pass |-> Flipped(before, after, unsteady, "failed"),
         pass_to_pass |-> Flipped(before, after, unsteady, "passed"),
         at           |-> nights]

\* The reward's own verdict on the declared ids: FAIL without the patch, PASS with it.
ProvedLive(m, without, with) ==
    LET declared == m.fail_to_pass \cup m.pass_to_pass
    IN  /\ \E t \in declared : without[t] = "failed"
        /\ \A t \in declared : with[t] = "passed"

-----------------------------------------------------------------------------
(* A night begins, and its re-mine takes the donors one after the other. *)

\* `existing` is the corpus of `--tasks`, which may list the re-mine's own root or not; a root
\* with no manifest or with one that does not load is refused, and nothing has happened.
Listable == Minted # {} /\ \A i \in Minted : out[i] # Torn
\* Mutant of Existing: only what was re-mined before is skipped.
ExistingMinted(listed) == Shas(IF listed THEN Minted ELSE {})
Existing(listed)       == Shas(Base \cup IF listed THEN Minted ELSE {})
Begin(listed) ==
    /\ pc = "down" /\ nights < MaxNights
    /\ listed => Listable
    /\ pc' = "donor" /\ donor' = 1 /\ nights' = nights + 1
    /\ accumulated' = Existing(listed)
    /\ pairs' = {} /\ drawn' = {}
    /\ UNCHANGED <<disk, history, membership, mint, left>>

\* The order of the attempts is drawn by the night's seed; what is skipped is not attempted.
\* Mutant of Selected: the skip set is ignored.
Pool(d)        == {c \in history[d] : c \in Candidates}
SelectedAll(d) == SetToSeqs(Pool(d))
Selected(d)    == SetToSeqs(Pool(d) \ accumulated)
StartDonor ==
    /\ pc = "donor" /\ donor \in Donors
    /\ pc' = "candidate" /\ queue' \in Selected(donor) /\ minted' = {} /\ staged' = None
    /\ UNCHANGED <<disk, history, membership, donor, opened, accumulated, pairs, drawn, nights, left>>

\* An absent or unreadable donor, or an OSError anywhere in its mint, is an outcome with a reason;
\* the next donor follows.  What its mint had copied is on disk and in no list.
\* Mutant of DonorAbsent: the exception leaves the re-mine.
DonorAbsentRaises ==
    /\ pc \notin {"down", "load", "drawn"} /\ donor \in Donors
    /\ pc' = "down"
    /\ UNCHANGED <<disk, history, membership, donor, mint, accumulated, pairs, drawn, nights, left>>
DonorAbsent ==
    /\ pc \notin {"down", "load", "drawn"} /\ donor \in Donors
    /\ pc' = "donor" /\ donor' = donor + 1
    /\ queue' = <<>> /\ staged' = None /\ opened' = None /\ minted' = {}
    /\ UNCHANGED <<disk, history, membership, accumulated, pairs, drawn, nights, left>>

-----------------------------------------------------------------------------
(* One candidate: the gates, then the copy.  A gate that refuses ends the candidate. *)

Id        == [label |-> Labels[donor], sha |-> Head(queue)]
MoreWanted      == Cardinality(minted) < Limit
Mine(step) ==
    pc = step /\ UNCHANGED <<opened, history, membership, donor, accumulated, drawn, nights, left>>
Attempted   == pc' = "candidate" /\ queue' = Tail(queue) /\ staged' = None

Manifest(m) ==
    [fail_to_pass |-> m.fail_to_pass, pass_to_pass |-> m.pass_to_pass,
     blobs |-> Held[Head(queue)], import_roots |-> Roots[Head(queue)]]

\* Any gate may refuse for a reason of the machine's: a run that times out, a tool that fails.
Attempts == queue # <<>> /\ MoreWanted
Reject ==
    /\ \/ Mine("candidate") /\ Attempts
       \/ Mine("derive")
       \/ Mine("prove") /\ LoadTask(Manifest(staged))
    /\ Attempted
    /\ UNCHANGED <<disk, minted, pairs>>

\* The held set is decided before anything is cloned; a directory a killed or an earlier night
\* left there makes the clone fail, and a failed clone is a rejected candidate.
Provision ==
    /\ Mine("candidate") /\ Attempts
    /\ IF Head(queue) \in Holdable /\ Id \notin scratch
       THEN /\ scratch' = scratch \cup {Id}
            /\ IF Head(queue) \in Lockable
               THEN pc' = "derive" /\ UNCHANGED <<queue, staged>>
               ELSE Attempted
       ELSE Attempted /\ UNCHANGED scratch
    /\ UNCHANGED <<out, evidence, minted, pairs>>

\* Red, green and green again; a task with nothing that must go green is refused.
Derive ==
    /\ Mine("derive")
    /\ \E before \in Runs(Head(queue), FALSE), after, repeat \in Runs(Head(queue), TRUE) :
         LET m == Derived(before, after, repeat)
         IN  IF m.fail_to_pass # {} THEN pc' = "prove" /\ staged' = m /\ UNCHANGED queue
                                    ELSE Attempted
    /\ UNCHANGED <<disk, minted, pairs>>

\* What the loader refuses of a staged manifest is a ValueError no caller catches: a donor whose
\* build names a root outside itself ends the night.
StageRaises ==
    /\ pc = "prove" /\ ~LoadTask(Manifest(staged))
    /\ pc' = "down"
    /\ UNCHANGED <<disk, history, membership, donor, mint, accumulated, pairs, drawn, nights, left>>

\* Staged in scratch and proved there; only then is it copied into the corpus.
Prove ==
    /\ Mine("prove") /\ LoadTask(Manifest(staged))
    /\ \E without \in Runs(Head(queue), FALSE), with \in Runs(Head(queue), TRUE) :
         IF ProvedLive(staged, without, with)
         THEN pc' = "copy" /\ UNCHANGED <<queue, staged>>
         ELSE Attempted
    /\ UNCHANGED <<disk, minted, pairs>>

CopyBegins ==
    /\ Mine("copy")
    /\ pc' = "copying" /\ out' = [out EXCEPT ![Id] = Torn]
    /\ UNCHANGED <<evidence, scratch, queue, staged, minted, pairs>>
CopyEnds ==
    /\ Mine("copying")
    /\ out' = [out EXCEPT ![Id] = staged] /\ minted' = minted \cup {Id}
    /\ Attempted
    /\ UNCHANGED <<evidence, scratch, pairs>>

-----------------------------------------------------------------------------
(* The mint of one donor ends; its evidence is merged, and the next donor skips what it minted. *)

MintEnds ==
    /\ pc = "candidate" /\ ~Attempts
    /\ IF minted = {} THEN pc' = "donor" /\ donor' = donor + 1
                      ELSE pc' = "ledger" /\ UNCHANGED donor
    /\ queue' = <<>>
    /\ UNCHANGED <<disk, history, membership, staged, opened, minted, accumulated, pairs, drawn, nights, left>>

\* A ledger that cannot be parsed is a ValueError that neither `mine` nor `remine` catches.
LedgerRaises ==
    /\ pc = "ledger" /\ evidence = Torn
    /\ pc' = "down"
    /\ UNCHANGED <<disk, history, membership, donor, mint, accumulated, pairs, drawn, nights, left>>

Entries == IF evidence = None THEN [i \in Ids |-> None] ELSE evidence
\* Mutant of Merged: the ledger is rewritten from this mint alone.
Rewritten == [i \in Ids |-> IF i \in minted THEN out[i] ELSE None]
Merged    == [i \in Ids |-> IF i \in minted THEN out[i] ELSE Entries[i]]
LedgerBegins ==
    /\ pc = "ledger" /\ evidence # Torn
    /\ pc' = "ledgering" /\ opened' = Merged /\ evidence' = Torn
    /\ UNCHANGED <<out, scratch, history, membership, donor, queue, staged, minted, accumulated, pairs,
                   drawn, nights, left>>
LedgerEnds ==
    /\ pc = "ledgering"
    /\ evidence' = opened /\ opened' = None
    /\ pc' = "donor" /\ donor' = donor + 1
    /\ pairs' = pairs \cup minted /\ accumulated' = accumulated \cup Shas(minted)
    /\ UNCHANGED <<out, scratch, history, membership, queue, staged, minted, drawn, nights, left>>

-----------------------------------------------------------------------------
(* The night loads its roots and draws what is not held out. *)

Loaded == Base \cup Minted
DonorsDone ==
    /\ pc = "donor" /\ donor \notin Donors
    /\ pc' = "load"
    /\ UNCHANGED <<disk, history, membership, donor, mint, accumulated, pairs, drawn, nights, left>>
\* A manifest that does not parse is refused, and a strict loader skips nothing.
LoadRaises ==
    /\ pc = "load" /\ \E i \in Minted : out[i] = Torn
    /\ pc' = "down"
    /\ UNCHANGED <<disk, history, membership, donor, mint, accumulated, pairs, drawn, nights, left>>
Load ==
    /\ pc = "load" /\ \A i \in Minted : out[i] # Torn
    /\ pc' = "drawn" /\ drawn' = Loaded \ membership
    /\ UNCHANGED <<disk, history, membership, donor, mint, accumulated, pairs, nights, left>>

\* The night is over; its ledger names the tasks and the delta.
End ==
    /\ pc = "drawn" /\ pc' = "down"
    /\ UNCHANGED <<disk, history, membership, donor, mint, accumulated, pairs, drawn, nights, left>>

Kill ==
    /\ pc # "down" /\ left.kills > 0
    /\ pc' = "down" /\ left' = [left EXCEPT !.kills = @ - 1]
    /\ UNCHANGED <<disk, history, membership, donor, mint, accumulated, pairs, drawn, nights>>

\* A donor's owner commits; two donors may be clones of one repository.
Commit ==
    /\ left.commits > 0
    /\ \E d \in Donors, c \in Commits :
         c \notin history[d] /\ history' = [history EXCEPT ![d] = @ \cup {c}]
    /\ left' = [left EXCEPT !.commits = @ - 1]
    /\ UNCHANGED <<disk, membership, pc, donor, mint, accumulated, pairs, drawn, nights>>

\* The operator empties the workspace between nights.
Clean ==
    /\ pc = "down" /\ scratch # {}
    /\ scratch' = {}
    /\ UNCHANGED <<out, evidence, history, membership, pc, donor, mint, accumulated, pairs, drawn,
                   nights, left>>

Mint  == Provision \/ Reject \/ Derive \/ StageRaises \/ Prove \/ CopyBegins \/ CopyEnds
Night == StartDonor \/ Mint \/ MintEnds \/ LedgerRaises \/ LedgerBegins \/ LedgerEnds
             \/ DonorsDone \/ LoadRaises \/ Load \/ End
Next == (\E listed \in BOOLEAN : Begin(listed)) \/ Night \/ DonorAbsent \/ Kill \/ Commit \/ Clean

Spec     == Init /\ [][Next]_vars
FairSpec == Spec /\ WF_vars(Night)

-----------------------------------------------------------------------------
(* What the re-mine promises the night. *)

TypeOK ==
    /\ out \in [Ids -> Manifests \cup {None, Torn}]
    /\ evidence \in {None, Torn} \cup [Ids -> Manifests \cup {None}]
    /\ scratch \subseteq Ids /\ history \in [Donors -> SUBSET Commits] /\ membership \subseteq Base
    /\ pc \in {"down", "donor", "candidate", "derive", "prove", "copy", "copying", "ledger",
               "ledgering", "load", "drawn"}
    /\ donor \in 1..Len(Labels) + 1 /\ queue \in Seq(Commits)
    /\ staged \in Manifests \cup {None} /\ opened \in {None} \cup [Ids -> Manifests \cup {None}]
    /\ minted \subseteq Ids /\ accumulated \subseteq Commits /\ pairs \subseteq Ids
    /\ drawn \subseteq Base \cup Ids /\ nights \in 0..MaxNights
    /\ left \in [kills : 0..MaxKills, commits : 0..MaxCommits]

\* No night draws a held-out commit, under whatever label it was re-mined: the document is over
\* `--tasks`, and every commit there is skipped before it is attempted (remine.py:32-36).
HeldoutStaysOut ==
    pc = "drawn" => Shas(drawn) \cap Shas(membership) = {}

\* The delta a night records names no commit twice and none its corpus had, whichever donors share
\* history and whatever was killed before (remine.py:110-112, night.py:255-257).
NothingTwice ==
    /\ Shas(pairs) \cap Shas(Base) = {}
    /\ \A p, q \in pairs : p.sha = q.sha => p = q

\* A re-mined task that is drawn was written whole, and what it declares is what its commit does:
\* a test that was never red is not rewarded for turning green (mine.py:20-24, derive.py).
DrawnIsLive ==
    pc = "drawn" => \A i \in drawn \cap Minted :
        /\ out[i] \in Manifests /\ out[i].fail_to_pass # {}
        /\ \A t \in out[i].fail_to_pass : Nature[i.sha].tests[t] \in {"turns", "flaky"}
        /\ i.sha \in Reached =>
             \A t \in out[i].pass_to_pass : Nature[i.sha].tests[t] \in {"green", "flaky"}

\* Each task of the delta is on disk and the evidence beside it hashes those very bytes, for every
\* donor of the night and not the last alone; a ledger cut short is the exception (mine.py:415-432).
EvidenceAccounts ==
    pc \in {"load", "drawn"} /\ evidence # Torn =>
        \A i \in pairs : evidence[i] = out[i] /\ out[i] \in Manifests

\* An absent donor, a refused candidate or nothing new ends no night: while no write is cut short,
\* nothing kills it and no donor declares a root outside itself, a night that begins draws
\* (remine.py:24).
WritesWhole ==
    pc \notin {"copying", "ledgering"} => evidence # Torn /\ \A i \in Ids : out[i] # Torn
NightProceeds ==
    [](WritesWhole /\ left.kills = MaxKills /\ \A d \in Donors : \A c \in history[d] : RootsLoad(Roots[c])) => (pc = "donor" ~> pc = "drawn")

\* The labels of a minted task were derived on the very files STRICT verifies it on, the conftest
\* files between the root and its tests included (held.py:118-139, derive.py:95-191).
OneTree == {c \in Commits : DerivedTree(Nature[c].commit) = VerifiedTree(Nature[c].commit)}
LabelsAreOfTheTree == Shas(Minted) \subseteq OneTree

\* A wrong import root mints nothing by itself.  The layout is guessed where no build declares it and
\* a declaration is believed (environment.py:315-341), so a task's tests may import another copy of
\* its code; but the red and the green run then differ only by a test that differs from run to run.
OwnCodeDecides ==
    \A i \in Minted : out[i] # Torn /\ i.sha \notin Reached =>
        \A t \in out[i].fail_to_pass : Nature[i.sha].tests[t] = "flaky"
=============================================================================
