------------------------------ MODULE MCMining ------------------------------
(* Two donors that share a commit.  One commit is in the corpus, one turns a test green; one is  *)
(* of a project not built as a package that keeps its code in src, where the guess of the root  *)
(* misses it, and one of its tests is flaky.  Of those that may be committed later, one declares *)
(* a root outside its donor, one changes a conftest beside its tests, and one has its module     *)
(* where no build would look.                                                                    *)
EXTENDS Mining

CONSTANTS base, turning, flaky, outside, floored, hidden, t1, t2

MCCommits == {base, turning, flaky, outside, floored, hidden}
MCTests   == {t1, t2}

TestFile   == [at |-> <<"tests">>, name |-> "test"]
SourceFile == [at |-> <<"src">>, name |-> "module"]
Conftest   == [at |-> <<>>, name |-> "conftest"]
Change(p)  == [status |-> "M", paths |-> {p}]
GitCommit(c) ==
    [parents |-> 1, tree |-> {TestFile, SourceFile, Conftest},
     changes |-> {Change(p) : p \in {TestFile, SourceFile} \cup IF c = floored THEN {Conftest} ELSE {}}]
Project(c) ==
    [pyproject |-> "read", setup_cfg |-> "absent", setuptools |-> {}, cfg_roots |-> {},
     hatch |-> CASE c = outside -> {"outside"} [] c \in {hidden, flaky} -> {} [] OTHER -> {"src"},
     packaged |-> c # flaky, dirs |-> {".", "src", "lib", "outside"},
     module_at |-> CASE c = outside -> {} [] c = hidden -> {"lib"} [] OTHER -> {"src"},
     code_at |-> CASE c = outside -> {} [] c = hidden -> {"lib"} [] OTHER -> {"src"},
     copy |-> "new", locked |-> TRUE, freeze |-> {"exact", "path"}]
MCNature   ==
    [c \in MCCommits |->
        [commit |-> GitCommit(c), project |-> Project(c),
         tests  |-> [t \in MCTests |-> CASE c = flaky -> IF t = t1 THEN "flaky" ELSE "turns"
                                         [] OTHER     -> IF t = t1 THEN "turns" ELSE "green"]]]
MCLabels  == <<"donor-a", "donor-b">>
MCOffered == <<{base, turning}, {turning, flaky}>>
MCBase    == {[label |-> "donor-a", sha |-> base]}
=============================================================================
