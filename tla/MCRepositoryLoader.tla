--------------------------- MODULE MCRepositoryLoader ---------------------------
(* Small instances of RepositoryLoader for TLC. *)
EXTENDS RepositoryLoader

(* Two callers in one workspace, each with a repository of its own ... *)
MCSeparate ==
    [loads |-> {<<"l1", "r1">>, <<"l2", "r2">>},
     faults |-> {"no_git", "clone", "timeout", "metadata"}]
(* ... or two or three of them with the same one. *)
MCTwoTogether == [loads |-> {<<"l1", "r1">>, <<"l2", "r1">>}, faults |-> {}]
MCTogether == [loads |-> {<<"l1", "r1">>, <<"l2", "r1">>, <<"l3", "r1">>}, faults |-> FaultKinds]

MCScenarios == {MCSeparate, MCTogether}
MCRemoval == {MCTwoTogether}
================================================================================
