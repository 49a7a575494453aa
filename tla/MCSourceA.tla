----------------------------- MODULE MCSourceA -----------------------------
(* Rows of two repositories: one sound, one of bare test names, one whose files collect more than *)
(* it declares, one the server truncates, and in a second edition one whose patch deletes a test. *)
EXTENDS SourceA

CONSTANTS sound, bare, wide, cut, gone, t1, t2, t3

MCRows  == {sound, bare, wide, cut, gone}
MCTests == {t1, t2, t3}

TestFile  == [at |-> <<"tests">>, name |-> "test"]
Conftest  == [at |-> <<>>, name |-> "conftest"]
MCProject == [pyproject |-> "read", hatch |-> {"src"}, setuptools |-> {}, setup_cfg |-> "absent",
              cfg_roots |-> {}, packaged |-> TRUE, dirs |-> {".", "src"}, module_at |-> {"src"},
              code_at |-> {"src"}, copy |-> "none", locked |-> FALSE, freeze |-> {"exact"}]
Row(repo, fail, pass, collects) ==
    [repo |-> repo, fail |-> fail, pass |-> pass, collects |-> collects, project |-> MCProject,
     tree |-> {TestFile, Conftest}, test_patch |-> {[status |-> "M", path |-> TestFile]},
     imports |-> TRUE, applies |-> TRUE, live |-> TRUE]
MCFacts == [i \in MCRows |->
    CASE i = bare  -> Row(1, <<t3>>, <<>>, {})
      [] i = wide  -> Row(2, <<t1>>, <<>>, {t1, t2})
      [] i = gone  -> [Row(2, <<t1>>, <<>>, {t1}) EXCEPT !.test_patch = @ \cup
                         {[status |-> "D", path |-> [at |-> <<"tests", "old">>, name |-> "test"]]},
                                                          !.tree = @ \cup
                         {[at |-> <<"tests", "old">>, name |-> "test"]}]
      [] OTHER     -> Row(1, <<t1, t1>>, <<t2, t1>>, {t1, t2})]
MCEditions == {<<cut, sound, bare, wide>>, <<gone, cut, sound>>}
MCPlace == [i \in MCRows |-> CASE i = bare -> 1 [] i = sound -> 2 [] i = cut -> 3 [] i = wide -> 4 [] i = gone -> 5]
=============================================================================
