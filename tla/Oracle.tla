------------------------------- MODULE Oracle -------------------------------
(***************************************************************************)
(* What a base is shown of a task (bakeoff/sources.py): the non-test files *)
(* its own fix touches, named by the donor's commit or by the dataset's    *)
(* gold patch, read at the task's base commit, all of them or none.        *)
(* Operators only.  A task is a record: the repository it is of, whether   *)
(* it was mined there, the paths its commit names, its instance in the     *)
(* pool, the files the operator holds and those standing at its base.      *)
(***************************************************************************)
EXTENDS Storage, Integers, Sequences, SequencesExt, FiniteSetsExt

CONSTANTS
    TestPaths,              \* the paths that are test files by their name
    ORACLE_BUDGET_CHARS, MAX_BYTES_PER_CHARACTER

TwoPathStatuses == {"R", "C"}

\* `git show --name-status`: a rename or a copy names two paths.
Named(entry)      == IF entry[1] \in TwoPathStatuses THEN {entry[2], entry[3]} ELSE {entry[2]}
TouchedPaths(task) == UNION {Named(entry) : entry \in task.commit}

\* A fix that touches no source file, or one the operator holds, gives no oracle: the second would
\* show a base the assertions it is graded by.
Vouched(task, paths) == IF paths = {} \/ paths \cap task.held # {} THEN None ELSE paths

StructuralPaths(task) == Vouched(task, TouchedPaths(task) \ TestPaths)
FromDonor(task, repos) == IF task.repo \in repos THEN StructuralPaths(task) ELSE None

GoldPatch(task, pool) == IF pool = None \/ task.instance \notin DOMAIN pool THEN {} ELSE pool[task.instance]
FromPool(task, pool)  == Vouched(task, GoldPatch(task, pool) \ TestPaths)

\* The route is chosen by what the task carries, and neither falls back on the other.
ChangedPaths(task, repos, pool) ==
    IF task.mined THEN FromDonor(task, repos) ELSE FromPool(task, pool)

\* The patch the control arm applies.  Of the pool's it takes the whole, test files included.
ReferencePatch(task, repos, pool) ==
    IF task.mined THEN FromDonor(task, repos) ELSE Vouched(task, GoldPatch(task, pool))

-----------------------------------------------------------------------------
\* A file at the base commit: its bytes, and its characters or None when it is not UTF-8.  A path
\* the fix creates is not there.
Read(task, paths) == [p \in paths \cap DOMAIN task.tree |-> task.tree[p]]

Shown(entries)    == {p \in DOMAIN entries : entries[p].chars # None}
Oversize(entries) ==
    \E p \in DOMAIN entries : entries[p].bytes > ORACLE_BUDGET_CHARS * MAX_BYTES_PER_CHARACTER
Characters(entries) == FoldSet(LAMBDA p, n : n + entries[p].chars, 0, Shown(entries))

\* All the readable files or none: one too large refuses the rest, and a set of none is no oracle.
BudgetRule(entries) ==
    IF Oversize(entries) \/ Characters(entries) > ORACLE_BUDGET_CHARS \/ Shown(entries) = {}
    THEN None
    ELSE [p \in Shown(entries) |-> entries[p].chars]

OracleSources(task, repos, pool) ==
    LET paths == ChangedPaths(task, repos, pool)
    IN  IF paths = None \/ task.repo \notin repos THEN None ELSE BudgetRule(Read(task, paths))
=============================================================================
