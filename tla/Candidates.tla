----------------------------- MODULE Candidates -----------------------------
(***************************************************************************)
(* What a repository says of itself before anything of it is run: which    *)
(* commits are candidate tasks and what each holds and gives away          *)
(* (tasks/donor.py, held.py, derive.py: gold_patch), where its code lives  *)
(* and what it is pinned to (tasks/environment.py), and what the loader of *)
(* a manifest refuses (verify/task.py).  Operators only.                   *)
(***************************************************************************)
EXTENDS Naturals, Sequences, FiniteSets, SequencesExt

(* A path is the directories it is in and what its name makes it: `test` is named test_*.py or *)
(* *_test.py, `conftest` is conftest.py, `module` any other .py, `data` anything else.         *)
(* A commit is its number of parents, its changes (a status and the one or two paths git names)*)
(* and its parent's tree.                                                                       *)

IsTestPath(p) == p.name # "data" /\ (p.name = "test" \/ Range(p.at) \cap {"test", "tests"} # {})

\* A rename names two paths, and neither is a modification.
Touched(commit) ==
    UNION {{[status |-> change.status, path |-> p] : p \in change.paths} : change \in commit.changes}

Classify(commit) ==
    LET touched == Touched(commit)
        ours    == {e \in touched : ~IsTestPath(e.path)}
    IN  [held   |-> {e.path : e \in {t \in touched \ ours : t.status = "M"}},
         source |-> {e.path : e \in {t \in ours : t.path.name # "data"}},
         other  |-> {e.path : e \in {t \in ours : t.path.name = "data"}}]

Candidate(commit) ==
    commit.parents = 1 /\ Classify(commit).held # {} /\ Classify(commit).source # {}

\* Every conftest between the repository's root and a held test.
ConftestFloor(tree, tests) ==
    UNION {{[at |-> SubSeq(t.at, 1, d), name |-> "conftest"] : d \in 0..Len(t.at)} : t \in tests}
        \cap tree

GoldPaths(commit)  == Classify(commit).source \cup Classify(commit).other
HeldPaths(commit)  == Classify(commit).held \cup ConftestFloor(commit.tree, Classify(commit).held)
\* Mutant of OverDeclared: only the held tests themselves are compared with the gold patch.
OverDeclaredByTests(commit) == Classify(commit).held \cap GoldPaths(commit) # {}
OverDeclared(commit)        == HeldPaths(commit) \cap GoldPaths(commit) # {}

\* A manifest carries a held test as the commit left it, and a conftest as the parent has it.
BlobAt(commit, p) == IF p \in Classify(commit).held THEN "commit" ELSE "parent"

\* What a test sees where the labels are derived: the parent, the commit's tests, the gold patch;
\* and where STRICT verifies the gold patch: the parent, the patch, and over it the manifest's blobs.
DerivedTree(commit) ==
    [p \in commit.tree |->
        IF p \in Classify(commit).held \cup GoldPaths(commit) THEN "commit" ELSE "parent"]
VerifiedTree(commit) ==
    [p \in commit.tree |-> CASE p \in HeldPaths(commit) -> BlobAt(commit, p)
                             [] p \in GoldPaths(commit) \ HeldPaths(commit) -> "commit"
                             [] OTHER                    -> "parent"]

-----------------------------------------------------------------------------
(* A project: the state of its two configuration files, the roots each way of declaring them  *)
(* names ({} where it does not), the directories it has, where the module of its name is,     *)
(* whether it is built as a package, where the code its tests import is ({} where they import *)
(* none of it), and the copy of that code the environment brings by itself: none, one without *)
(* the commit or one that has it.                                                             *)

DeclaredRoots(project) ==
    IF project.hatch # {} THEN project.hatch ELSE project.setuptools

SetupCfgRoots(project) ==
    IF project.setup_cfg = "read" THEN project.cfg_roots ELSE {}

\* src before the root, as a build would look; {} where no module bears the distribution's name.
ObservedRoot(project) ==
    CASE "src" \in project.module_at -> {"src"}
      [] project.module_at = {"."}   -> {"."}
      [] OTHER                       -> {}

Declared(project) ==
    IF DeclaredRoots(project) # {} THEN DeclaredRoots(project) ELSE SetupCfgRoots(project)

\* A package nobody declares and nothing shows is refused where it has a src directory.
Ambiguous(project) ==
    project.packaged /\ ObservedRoot(project) = {} /\ "src" \in project.dirs

UnknownImportRoot(project) ==
    \/ project.pyproject = "unreadable"
    \/ DeclaredRoots(project) = {} /\ project.setup_cfg = "unreadable"
    \/ Declared(project) = {} /\ (project.pyproject = "absent" \/ Ambiguous(project))
    \/ ~ Declared(project) \subseteq project.dirs

ImportRoots(project) ==
    IF Declared(project) # {} THEN Declared(project)
    ELSE IF project.packaged /\ ObservedRoot(project) # {} THEN ObservedRoot(project)
    ELSE {"."}

\* A test runs from the checkout's root and looks there, then in its import roots, and only then in
\* the environment, where the project is never installed but a dependency may bring a copy.
Reaches(project) ==
    project.code_at = {} \/ (ImportRoots(project) \cup {"."}) \cap project.code_at # {}

-----------------------------------------------------------------------------
(* What an environment is recorded as, and what the loader takes. *)

\* One line of a freeze is an exact pin, an install from a path, or neither; neither is refused.
PinsFromFreeze(freeze) == [pins |-> freeze \cap {"exact"}, local |-> freeze \cap {"path"}]
Describable(freeze)    == freeze \subseteq {"exact", "path"}

\* A donor without a lock, without a root or without a describable environment is not provisioned.
Captured(project) ==
    project.locked /\ ~UnknownImportRoot(project) /\ Describable(project.freeze)

\* The loader's import roots stay inside the checkout; a declared one need not.
RootsLoad(roots) == "outside" \notin roots

\* Node ids that must go green, in one list only; blobs to restore; roots inside the checkout.
NodeIdsLoad(m)   == m.fail_to_pass # {} /\ m.fail_to_pass \cap m.pass_to_pass = {}
BlobsLoad(blobs) == blobs # {}
LoadTask(m)      == NodeIdsLoad(m) /\ BlobsLoad(m.blobs) /\ RootsLoad(m.import_roots)
=============================================================================
