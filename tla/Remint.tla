------------------------------- MODULE Remint -------------------------------
(***************************************************************************)
(* The re-mint of the machine corpus (loop/remint_apply.py): an operator   *)
(* gives its commands in the order of the sheet (snapshot, verify, swap,   *)
(* rewrite, regenerate, re-derive the stratum, re-derive the held-out      *)
(* split), each working file by file, each free to be killed inside a      *)
(* write or to refuse.  Meanwhile a night may load the corpus, whatever    *)
(* state it is in, and the leakage check may read what it trained on.      *)
(***************************************************************************)
EXTENDS Heldout

CONSTANTS
    OldRoot,        \* the root each pre-swap manifest lies in
    Minted,         \* the commits of the pre-swap corpus
    RealOf,         \* the real donor of each commit: its `repo_url` before the swap
    Stagings,       \* what the staged re-mint can be
    MaxUnmeasured,  \* bound: tasks the stratum re-derivation may refuse
    MaxKills        \* bound: how often a command is killed

OldId(c)  == <<OldLabel, c>>
OldIds    == {OldId(c) : c \in Minted}
NewIds    == Roots \X Commits
Reals     == {RealOf[c] : c \in Commits}
\* A manifest on disk is what its `repo_url` says: a real donor, or the staging copy.
Manifests == Reals \cup {"staging"}
Contents  == Manifests \cup {"absent", "cut"}

\* The staged re-mint: its ids, the donor label each manifest carries, the commits whose
\* base differs from the snapshot's, and the ids its ledger names.
StagedSet == [names : SUBSET NewIds, donor : [NewIds -> Roots], moved : SUBSET Commits,
              ledger : SUBSET NewIds]

ASSUME RemintAssumption ==
    /\ OldRoot \in [Commits -> Roots]
    /\ Minted \subseteq Commits
    /\ Reals \cap {"staging", "absent", "cut"} = {}
    /\ Stagings \subseteq StagedSet
    /\ MaxUnmeasured \in Nat /\ MaxKills \in Nat

RootOf(id) == IF id[1] = OldLabel THEN OldRoot[id[2]] ELSE id[1]

\* The commands, in the order of the sheet.
Step == [snapshot |-> 1, verify |-> 2, swap |-> 3, rewrite |-> 4, ledger |-> 5, stratum |-> 6,
         heldout |-> 7]
Finished == 8

VARIABLES
    staged,     \* the staged re-mint this machine holds
    \* on disk
    corpus,     \* [Ids -> content]
    snapshot,   \* the snapshot's directory: whether it holds anything, its copies, its snapshot.json
    ledger,     \* the liveness ledger: the content each id's manifest_sha256 is of
    stratum,    \* the stratum document: the ids it measures
    heldout,    \* the held-out document
    \* the operator
    reached,    \* the command the sheet has next
    pc, root, todo,
    touched,    \* whether the last command has changed anything
    exit,       \* how the last command ended
    kills,
    \* the night, and the check of what it trained on
    loaded,     \* the ids it loaded
    night,      \* what it trained on, and what was held out of it
    report      \* what the check said, and against which membership

disk     == <<corpus, snapshot, ledger, stratum, heldout>>
operator == <<reached, pc, root, todo, touched, exit, kills>>
nightly  == <<loaded, night, report>>
vars     == <<staged, disk, operator, nightly>>

Absent   == [id \in Ids |-> "absent"]
OldBytes == [id \in Ids |-> IF id \in OldIds THEN RealOf[id[2]] ELSE "absent"]
NoNight  == [over |-> "nothing", trained |-> {}, held |-> {}, once |-> TRUE]
NoReport == [verdict |-> "none", trained |-> {}, held |-> {}]

Init ==
    /\ staged \in Stagings
    /\ corpus = OldBytes
    /\ snapshot = [place |-> "fresh", copies |-> Absent, document |-> "absent", names |-> {}]
    /\ ledger = [state |-> "whole", pins |-> OldBytes]
    /\ stratum = [state |-> "whole", measured |-> OldIds]
    /\ Composable(Drawn(OldIds, OldIds))
    /\ heldout = [state |-> "whole", document |-> Drawn(OldIds, OldIds)]
    /\ reached = 1
    /\ pc = "idle" /\ root = 1 /\ todo = {} /\ touched = FALSE
    /\ exit = "none" /\ kills = 0
    /\ loaded = {} /\ night = NoNight /\ report = NoReport

-----------------------------------------------------------------------------
(* A command is given, does its work, and ends. *)

Names        == {id \in Ids : corpus[id] # "absent"}
FirstOf(ids) == CHOOSE i \in ids : \A j \in ids : i = j \/ NameBefore(i, j)

\* The sheet is followed in order; a command behind the next one may be given again, and
\* then the sheet goes on from there.
Given(command) == pc = "idle" /\ Step[command] <= reached

End(how) == pc' = "idle" /\ root' = 1 /\ todo' = {} /\ exit' = how

\* Refused before it went to work, and at it.
RefuseAtOnce == End("refused") /\ touched' = FALSE /\ UNCHANGED <<reached, kills>>
Refuse       == End("refused") /\ UNCHANGED <<reached, touched, kills>>

Succeed == End("done") /\ reached' = reached + 1 /\ UNCHANGED <<touched, kills>>

\* The command goes to work, over `ids`.
Work(command, phase, ids) ==
    /\ reached' = Step[command]
    /\ pc' = phase /\ todo' = ids /\ touched' = FALSE /\ exit' = "none"
    /\ UNCHANGED <<root, kills>>

\* One file is dealt with.
Handled(id) ==
    /\ todo' = todo \ {id} /\ touched' = TRUE
    /\ UNCHANGED <<reached, pc, root, exit, kills>>

\* `load_tasks` over every root: nothing is skipped, and an empty root is refused.
Loadable(contents) ==
    /\ \A id \in Ids : contents[id] # "cut"
    /\ \A r \in Roots : \E id \in Ids : RootOf(id) = r /\ contents[id] # "absent"

-----------------------------------------------------------------------------
(* `snapshot_corpus`. *)

\* Mutant of Fresh: a snapshot may be taken again.
FreshAlways == TRUE

Fresh == snapshot.place = "fresh"

SnapshotBegins ==
    /\ Given("snapshot")
    /\ IF Fresh
         THEN Work("snapshot", "copying", Names) /\ snapshot' = [snapshot EXCEPT !.place = "taken"]
         ELSE RefuseAtOnce /\ UNCHANGED snapshot
    /\ UNCHANGED <<staged, corpus, ledger, stratum, heldout, nightly>>

SnapshotCopies ==
    /\ pc = "copying" /\ todo # {}
    /\ LET id == FirstOf(todo)
       IN  IF corpus[id] = "cut" THEN Refuse /\ UNCHANGED snapshot
           ELSE /\ snapshot' = [snapshot EXCEPT !.copies[id] = corpus[id]]
                /\ Handled(id)
    /\ UNCHANGED <<staged, corpus, ledger, stratum, heldout, nightly>>

\* `snapshot.json` comes last.
SnapshotSeals ==
    /\ pc = "copying" /\ todo = {}
    /\ IF ledger.state # "whole" THEN Refuse /\ UNCHANGED snapshot
       ELSE snapshot' = [snapshot EXCEPT !.document = "whole", !.names = Names] /\ Succeed
    /\ UNCHANGED <<staged, corpus, ledger, stratum, heldout, nightly>>

-----------------------------------------------------------------------------
(* `verify_staged`. *)

CommitsOf(ids) == {id[2] : id \in ids}

\* Mutant of Provable: the tree a task checks out is not compared.
ProvableAtAnyBase ==
    /\ snapshot.document = "whole"
    /\ Cardinality(staged.names) = Cardinality(snapshot.names)
    /\ CommitsOf(staged.names) = CommitsOf(snapshot.names)
    /\ staged.ledger = staged.names

\* The staged re-mint is the snapshot's commit set, each commit once, at its own base, and
\* its ledger names the same ids.
Provable ==
    /\ snapshot.document = "whole"
    /\ Cardinality(staged.names) = Cardinality(snapshot.names)
    /\ CommitsOf(staged.names) \cap staged.moved = {}
    /\ CommitsOf(staged.names) = CommitsOf(snapshot.names)
    /\ staged.ledger = staged.names

Verify ==
    /\ Given("verify")
    /\ touched' = FALSE /\ End(IF Provable THEN "done" ELSE "refused")
    /\ reached' = IF Provable /\ reached = Step.verify THEN reached + 1 ELSE reached
    /\ UNCHANGED <<staged, disk, kills, nightly>>

-----------------------------------------------------------------------------
(* `swap_manifests`, root by root. *)

StagedIn(r) == {id \in staged.names : id[1] = r}

SwapBegins ==
    /\ Given("swap")
    /\ Work("swap", "entering", {})
    /\ UNCHANGED <<staged, disk, nightly>>

\* Mutant of Applied: a second apply is not noticed.
AppliedNever(r) == FALSE

\* The root holds a label-form manifest already: a double apply.
Applied(r) == \E id \in Names : id[1] \in Roots /\ RootOf(id) = r

SwapEnters ==
    /\ pc = "entering"
    /\ IF Applied(root) THEN Refuse
       ELSE /\ pc' = "adding" /\ todo' = StagedIn(root)
            /\ UNCHANGED <<reached, root, touched, exit, kills>>
    /\ UNCHANGED <<staged, disk, nightly>>

SwapAdds ==
    /\ pc = "adding" /\ todo # {}
    /\ LET id == FirstOf(todo)
       IN  corpus' = [corpus EXCEPT ![id] = "staging"] /\ Handled(id)
    /\ UNCHANGED <<staged, snapshot, ledger, stratum, heldout, nightly>>

SwapAdded ==
    /\ pc = "adding" /\ todo = {}
    /\ pc' = "removing"
    /\ todo' = {id \in Names : RootOf(id) = root /\ id \notin StagedIn(root)}
    /\ UNCHANGED <<staged, disk, reached, root, touched, exit, kills, nightly>>

SwapRemoves ==
    /\ pc = "removing" /\ todo # {}
    /\ LET id == FirstOf(todo)
       IN  corpus' = [corpus EXCEPT ![id] = "absent"] /\ Handled(id)
    /\ UNCHANGED <<staged, snapshot, ledger, stratum, heldout, nightly>>

MoreRoots == root < R

SwapLeaves ==
    /\ pc = "removing" /\ todo = {}
    /\ IF MoreRoots
         THEN /\ pc' = "entering" /\ root' = root + 1
              /\ UNCHANGED <<reached, todo, touched, exit, kills>>
         ELSE Succeed
    /\ UNCHANGED <<staged, disk, nightly>>

-----------------------------------------------------------------------------
(* `real_donors` and `rewrite_repo_url`. *)

\* The pre-swap paths a staged label stands for, by the commits of its manifests.
PathsOf(label) == {RealOf[id[2]] : id \in {i \in Names : staged.donor[i] = label}}

\* Mutant of OnePath: any of a label's paths will do.
OnePathOfMany == TRUE

\* One label is one donor.
OnePath == \A i, j \in Names : staged.donor[i] = staged.donor[j] => RealOf[i[2]] = RealOf[j[2]]

\* Every manifest parses, and its commit's pre-swap copy does.
Recoverable ==
    /\ snapshot.document = "whole"
    /\ \A id \in Names : corpus[id] # "cut" /\ id[2] \in CommitsOf(snapshot.names)

RewriteBegins ==
    /\ Given("rewrite")
    /\ IF Recoverable /\ OnePath THEN Work("rewrite", "rewriting", Names) ELSE RefuseAtOnce
    /\ UNCHANGED <<staged, disk, nightly>>

\* What `repo_url` becomes: the one path of the manifest's own label.
Rewritten(id) == CHOOSE path \in PathsOf(staged.donor[id]) : TRUE

\* The donor of every manifest must be on this machine, looked for one at a time.
RewriteOne ==
    /\ pc = "rewriting" /\ todo # {}
    /\ LET id == FirstOf(todo)
       IN  \/ Refuse /\ UNCHANGED corpus
           \/ corpus' = [corpus EXCEPT ![id] = Rewritten(id)] /\ Handled(id)
    /\ UNCHANGED <<staged, snapshot, ledger, stratum, heldout, nightly>>

RewriteEnds ==
    /\ pc = "rewriting" /\ todo = {}
    /\ Succeed
    /\ UNCHANGED <<staged, disk, nightly>>

-----------------------------------------------------------------------------
(* `regenerate_ledger` and the two re-derivations: one document written, or none. *)

Write(command, ok) ==
    /\ Given(command)
    /\ IF ok THEN Work(command, command, {}) ELSE RefuseAtOnce
    /\ UNCHANGED <<staged, disk, nightly>>

\* Mutant of Covers: fewer entries than manifests are enough.
CoversSome == (\A id \in Names : corpus[id] # "cut") /\ Names \cap staged.ledger # {}

\* Every manifest parses, and the staged ledger names exactly them.
Covers == (\A id \in Names : corpus[id] # "cut") /\ Names = staged.ledger

Regenerate == Write("ledger", Covers)

RegenerateWrites ==
    /\ pc = "ledger"
    /\ ledger' = [state |-> "whole", pins |-> corpus]
    /\ Succeed
    /\ UNCHANGED <<staged, corpus, snapshot, stratum, heldout, nightly>>

ReDeriveStratum == Write("stratum", Loadable(corpus))

\* A task whose donor cannot be read is refused inside the document.
StratumWrites ==
    /\ pc = "stratum"
    /\ \E measured \in SUBSET Names :
         /\ measured # {} /\ Cardinality(Names \ measured) <= MaxUnmeasured
         /\ stratum' = [state |-> "whole", measured |-> measured]
    /\ Succeed
    /\ UNCHANGED <<staged, corpus, snapshot, ledger, heldout, nightly>>

\* The membership the rule draws now.
Now == Drawn(Names, stratum.measured)

ReDeriveHeldout ==
    \/ Write("heldout", Loadable(corpus) /\ stratum.state = "whole" /\ Composable(Now))
    \/ Write("heldout", FALSE)   \* an oracle could not be decided (HeldoutUnscorable)

HeldoutWrites ==
    /\ pc = "heldout"
    /\ heldout' = [state |-> "whole", document |-> Now]
    /\ Succeed
    /\ UNCHANGED <<staged, corpus, snapshot, ledger, stratum, nightly>>

-----------------------------------------------------------------------------
(* What goes wrong, and what the operator does about it. *)

Killed ==
    /\ kills < MaxKills /\ kills' = kills + 1
    /\ End("killed")
    /\ UNCHANGED <<staged, reached, touched, nightly>>

Kill == pc # "idle" /\ Killed /\ UNCHANGED disk

\* Inside the write the command was about to make.
KillWriting ==
    /\ \/ /\ pc = "copying" /\ todo # {}
          /\ snapshot' = [snapshot EXCEPT !.copies[FirstOf(todo)] = "cut"]
          /\ UNCHANGED <<corpus, ledger, stratum, heldout>>
       \/ /\ pc = "copying" /\ todo = {}
          /\ snapshot' = [snapshot EXCEPT !.document = "cut"]
          /\ UNCHANGED <<corpus, ledger, stratum, heldout>>
       \/ /\ pc \in {"adding", "rewriting"} /\ todo # {}
          /\ corpus' = [corpus EXCEPT ![FirstOf(todo)] = "cut"]
          /\ UNCHANGED <<snapshot, ledger, stratum, heldout>>
       \/ /\ pc = "ledger" /\ ledger' = [ledger EXCEPT !.state = "cut"]
          /\ UNCHANGED <<corpus, snapshot, stratum, heldout>>
       \/ /\ pc = "stratum" /\ stratum' = [stratum EXCEPT !.state = "cut"]
          /\ UNCHANGED <<corpus, snapshot, ledger, heldout>>
       \/ /\ pc = "heldout" /\ heldout' = [heldout EXCEPT !.state = "cut"]
          /\ UNCHANGED <<corpus, snapshot, ledger, stratum>>
    /\ Killed

\* "The snapshot is the only response to a botched swap": the operator puts the copies back.
Restore ==
    /\ pc = "idle" /\ exit \in {"killed", "refused"}
    /\ reached \in Step.swap .. Step.heldout /\ snapshot.document = "whole"
    /\ corpus' = snapshot.copies
    /\ reached' = Step.verify
    /\ exit' = "none"
    /\ UNCHANGED <<staged, snapshot, ledger, stratum, heldout, pc, root, todo, touched, kills, nightly>>

-----------------------------------------------------------------------------
(* A night over whatever the corpus is (loop/night.py `run_night`), and the check. *)

NightLoads ==
    /\ night.over = "nothing" /\ loaded = {}
    /\ Loadable(corpus)
    /\ loaded' = Names
    /\ UNCHANGED <<staged, disk, operator, night, report>>

Once(ids) == \A i, j \in ids : i[2] = j[2] => i = j

\* The document is read after the corpus, and its ids are excluded; at worst every task left
\* is won.  A night that refuses leaves the next one to come.
NightExcludes ==
    /\ night.over = "nothing" /\ loaded # {}
    /\ IF /\ heldout.state = "whole" /\ Readable(heldout.document)
          /\ Resolves(heldout.document.membership, loaded)
         THEN \E trained \in {{}, loaded \ heldout.document.membership} :
                night' = [over    |-> "trained",
                          trained |-> trained,
                          held    |-> heldout.document.membership,
                          once    |-> Once(loaded)]
         ELSE UNCHANGED night
    /\ loaded' = {}
    /\ UNCHANGED <<staged, disk, operator, report>>

\* `run_check`, once: a document that does not read is refused.
Check ==
    /\ night.over = "trained" /\ report.verdict = "none"
    /\ heldout.state = "whole" /\ Readable(heldout.document)
    /\ LET membership == heldout.document.membership
       IN  report' = [verdict |-> IF Leaked(night.trained, membership) = {} THEN "clean" ELSE "LEAKED",
                      trained |-> night.trained,
                      held    |-> membership]
    /\ UNCHANGED <<staged, disk, operator, loaded, night>>

-----------------------------------------------------------------------------
Next ==
    \/ SnapshotBegins \/ SnapshotCopies \/ SnapshotSeals
    \/ Verify
    \/ SwapBegins \/ SwapEnters \/ SwapAdds \/ SwapAdded \/ SwapRemoves \/ SwapLeaves
    \/ RewriteBegins \/ RewriteOne \/ RewriteEnds
    \/ Regenerate \/ RegenerateWrites
    \/ ReDeriveStratum \/ StratumWrites
    \/ ReDeriveHeldout \/ HeldoutWrites
    \/ Kill \/ KillWriting \/ Restore
    \/ NightLoads \/ NightExcludes \/ Check

Spec == Init /\ [][Next]_vars

-----------------------------------------------------------------------------
(* Properties. *)

\* Every variable keeps its type, and a command at work is at a root and over files it has.
TypeOK ==
    /\ staged \in Stagings
    /\ corpus \in [Ids -> Contents]
    /\ snapshot.place \in {"fresh", "taken"} /\ snapshot.document \in {"absent", "cut", "whole"}
    /\ snapshot.copies \in [Ids -> Contents] /\ snapshot.names \subseteq Ids
    /\ ledger.state \in {"cut", "whole"} /\ ledger.pins \in [Ids -> Contents]
    /\ stratum.state \in {"cut", "whole"} /\ stratum.measured \subseteq Ids
    /\ heldout.state \in {"cut", "whole"}
    /\ \A part \in {"corpus", "measured", "refused", "excluded", "membership"} :
         heldout.document[part] \subseteq Ids
    /\ heldout.document.band \in [heldout.document.measured -> Bands]
    /\ reached \in 1 .. Finished /\ root \in Roots /\ todo \subseteq Ids
    /\ pc \in {"idle", "copying", "entering", "adding", "removing", "rewriting",
               "ledger", "stratum", "heldout"}
    /\ touched \in BOOLEAN /\ kills \in 0 .. MaxKills
    /\ exit \in {"none", "done", "refused", "killed"}
    /\ loaded \subseteq Ids
    /\ night.over \in {"nothing", "trained"} /\ night.once \in BOOLEAN
    /\ night.trained \cup night.held \subseteq Ids
    /\ report.verdict \in {"none", "clean", "LEAKED"}
    /\ report.trained \cup report.held \subseteq Ids

\* Whatever is given, killed or refused, no task of the pre-swap corpus is lost: it is where
\* it was, or a whole snapshot that names it has its bytes.
Reversible ==
    \A id \in OldIds :
        \/ corpus[id] = RealOf[id[2]]
        \/ /\ snapshot.document = "whole" /\ id \in snapshot.names
           /\ snapshot.copies[id] = RealOf[id[2]]

\* A re-mint that got to the end of the sheet is whole, however often it was killed, restored
\* and taken up again: the old commits, each once and at its own base, each reading its own
\* donor, pinned as they are by the ledger, and all of them what the held-out document is of.
FinishedIsWhole ==
    reached = Finished =>
        /\ Once(Names) /\ CommitsOf(Names) = Minted
        /\ CommitsOf(Names) \cap staged.moved = {}
        /\ \A id \in Names : corpus[id] = RealOf[id[2]]
        /\ ledger.state = "whole" /\ ledger.pins = corpus
        /\ heldout.state = "whole" /\ heldout.document.corpus = Names

\* No manifest ever names another task's donor: a commit looked up in the wrong repository
\* is a different task, or none.
OwnDonor ==
    \A id \in Ids : corpus[id] \in Reals => corpus[id] = RealOf[id[2]]

\* A night trains on no held-out commit, whichever ids the corpus and the document it found
\* spell it by, as long as the corpus it loaded held each commit once.
NightDisjoint ==
    night.once => CommitsOf(night.trained) \cap CommitsOf(night.held) = {}

\* What the check calls clean shares no commit with the membership it read, re-minted since
\* the night or not.
LeakIsFound ==
    report.verdict = "clean" => CommitsOf(report.trained) \cap CommitsOf(report.held) = {}

\* Every document the rule writes is one its readers accept.
WhatIsComposedIsRead == heldout.state = "whole" => Readable(heldout.document)
=============================================================================
